---- MODULE Spec2Model ----
(***************************************************************************)
(* A model of the KSUID library: the base-62 numeral codec, the Instance   *)
(* tag, the Ksuid value type with its text form (toString / parse), and    *)
(* the Node generator with its (lastTimestamp, currentSequence) cursor.    *)
(*                                                                         *)
(* Representation.                                                         *)
(*  - A byte buffer (Uint8Array) is a sequence of numbers in 0..255.       *)
(*  - A string is a sequence of one-character strings.                     *)
(*  - A BigInt is its base-2^24 magnitude without leading zero digits      *)
(*    (0n is the empty sequence), so it has no width and cannot overflow.  *)
(*  - A JavaScript Number holding an integer is a pair of limbs           *)
(*    [hi, lo] standing for hi * 2^24 + lo with lo in 0 .. 2^24-1. It      *)
(*    covers every value the program meets: 0 .. 2^48 and the negative     *)
(*    32-bit results of the bitwise operators (hi in -128 .. -1).          *)
(***************************************************************************)
EXTENDS Integers, Sequences, FiniteSets, TLC

(***************************************************************************)
(* Byte buffers                                                            *)
(***************************************************************************)
Byte == 0..255

\* 2^24: the radix of a Number's limbs and of a BigInt's digits.
Limb == 256 * 256 * 256

Zeros(n) == [i \in 1..n |-> 0]

\* b without its leading zero elements.
StripZeros(b) ==
  LET nz == {i \in 1..Len(b) : b[i] # 0}
  IN  IF nz = {} THEN <<>>
      ELSE SubSeq(b, CHOOSE i \in nz : \A j \in nz : i <= j, Len(b))

\* b.slice(start): the bytes from 0-based index start to the end.
Slice(b, start) == SubSeq(b, start + 1, Len(b))

\* b.slice(start, end): 0-based, end exclusive.
Slice2(b, start, end) == SubSeq(b, start + 1, end)

\* target.set(source, offset) on a typed array: source overwrites the
\* elements of target from 0-based index offset on.
SetAt(target, source, offset) ==
  [i \in 1..Len(target) |->
     IF i > offset /\ i <= offset + Len(source) THEN source[i - offset]
     ELSE target[i]]

(***************************************************************************)
(* BigInt arithmetic (base62.ts computes on the whole buffer as one        *)
(* BigInt). A BigInt is the sequence of its base-2^24 digits, most         *)
(* significant first, without leading zero digits; 0n is <<>>. Every       *)
(* intermediate below stays under 2^31.                                    *)
(***************************************************************************)
\* The byte r places from the right end of b (0 past its left end).
ByteFromRight(b, r) == IF r < Len(b) THEN b[Len(b) - r] ELSE 0

\* num = (num << 8n) | BigInt(input[i]) over the whole input, from 0n:
\* the input read as one big-endian unsigned integer.
BigFromBytes(input) ==
  LET n == (Len(input) + 2) \div 3
  IN  StripZeros([j \in 1..n |->
        ByteFromRight(input, 3 * (n - j))
        + 256 * ByteFromRight(input, 3 * (n - j) + 1)
        + 65536 * ByteFromRight(input, 3 * (n - j) + 2)])

\* Mutation: the loop runs on for whole digits of num, leaving zero bytes
\* in front.
BigToBytesUnstripped(num) ==
  [i \in 1..(3 * Len(num)) |->
    LET limb == num[(i + 2) \div 3]
    IN  CASE i % 3 = 1 -> limb \div 65536
          [] i % 3 = 2 -> (limb \div 256) % 256
          [] OTHER     -> limb % 256]

\* bytes.unshift(Number(num & 0xFFn)); num = num >> 8n while num > 0n:
\* the big-endian bytes of num without leading zero bytes.
BigToBytes(num) ==
  StripZeros([i \in 1..(3 * Len(num)) |->
    LET limb == num[(i + 2) \div 3]
    IN  CASE i % 3 = 1 -> limb \div 65536
          [] i % 3 = 2 -> (limb \div 256) % 256
          [] OTHER     -> limb % 256])

\* Long division of a BigInt by a small divisor d (d <= 62), most
\* significant digit first: [q |-> num / d, r |-> num % d].
BigDivMod(num, d) ==
  LET n == Len(num)
      rem[i \in 0..n] == IF i = 0 THEN 0 ELSE (rem[i - 1] * Limb + num[i]) % d
  IN  [q |-> StripZeros([i \in 1..n |-> (rem[i - 1] * Limb + num[i]) \div d]),
       r |-> rem[n]]

\* num * m + a for small m and a (m, a <= 62), least significant digit first.
BigMulAdd(num, m, a) ==
  LET n == Len(num)
      carry[k \in 0..n] ==
        IF k = 0 THEN a ELSE (num[n - k + 1] * m + carry[k - 1]) \div Limb
  IN  StripZeros(<<carry[n]>> \o
                 [i \in 1..n |-> (num[i] * m + carry[n - i]) % Limb])

(***************************************************************************)
(* base62.ts                                                               *)
(***************************************************************************)
ALPHABET ==
  << "0", "1", "2", "3", "4", "5", "6", "7", "8", "9",
     "A", "B", "C", "D", "E", "F", "G", "H", "I", "J", "K", "L", "M",
     "N", "O", "P", "Q", "R", "S", "T", "U", "V", "W", "X", "Y", "Z",
     "a", "b", "c", "d", "e", "f", "g", "h", "i", "j", "k", "l", "m",
     "n", "o", "p", "q", "r", "s", "t", "u", "v", "w", "x", "y", "z" >>

ALPHABET_LENGTH == Len(ALPHABET)

AlphabetChars == {ALPHABET[i] : i \in 1..ALPHABET_LENGTH}

\* ENCODE_LOOKUP: character -> digit value (the map has no other key).
ENCODE_LOOKUP ==
  [c \in AlphabetChars |-> CHOOSE i \in 0..(ALPHABET_LENGTH - 1) : ALPHABET[i + 1] = c]

\* DECODE_LOOKUP: digit value -> character.
DECODE_LOOKUP == [i \in 0..(ALPHABET_LENGTH - 1) |-> ALPHABET[i + 1]]

\* Mutation: digits are pushed, so the least significant comes first.
RECURSIVE EncodeLoopPushing(_, _)
EncodeLoopPushing(num, result) ==
  IF num = <<>> THEN result
  ELSE LET dm == BigDivMod(num, ALPHABET_LENGTH)
       IN  EncodeLoopPushing(dm.q, result \o <<DECODE_LOOKUP[dm.r]>>)

\* The while loop of encode: digits are unshifted, least significant first.
RECURSIVE EncodeLoop(_, _)
EncodeLoop(num, result) ==
  IF num = <<>> THEN result
  ELSE LET dm == BigDivMod(num, ALPHABET_LENGTH)
       IN  EncodeLoop(dm.q, <<DECODE_LOOKUP[dm.r]>> \o result)

encode(input) ==
  IF Len(input) = 0 THEN <<>>
  ELSE LET num == BigFromBytes(input)
       IN  IF num = <<>> THEN <<"0">>
           ELSE EncodeLoop(num, <<>>)

\* The accumulation loop of decode: num = num * 62 + value, left to right.
\* (Len(num) >= 0 is always true; it makes TLC evaluate the accumulator at
\* each step instead of nesting one suspended product per character.)
RECURSIVE DecodeLoop(_, _, _)
DecodeLoop(input, i, num) ==
  IF Len(num) >= 0 /\ i > Len(input) THEN num
  ELSE DecodeLoop(input, i + 1, BigMulAdd(num, ALPHABET_LENGTH, ENCODE_LOOKUP[input[i]]))

Base62Error == [threw |-> TRUE, name |-> "Base62Error",
                message |-> "Invalid character in base62 string"]

\* Mutation: only the first character is validated; later characters
\* outside the alphabet are skipped.
decodeSkipping(input) ==
  IF Len(input) = 0 THEN [threw |-> FALSE, value |-> <<>>]
  ELSE IF input[1] \notin AlphabetChars
  THEN Base62Error
  ELSE LET kept == SelectSeq(input, LAMBDA c : c \in AlphabetChars)
           num  == DecodeLoop(kept, 1, <<>>)
       IN  IF num = <<>> THEN [threw |-> FALSE, value |-> <<0>>]
           ELSE [threw |-> FALSE, value |-> BigToBytes(num)]

\* decode returns [threw |-> FALSE, value |-> bytes] or the thrown error.
decode(input) ==
  IF Len(input) = 0 THEN [threw |-> FALSE, value |-> <<>>]
  ELSE IF \E i \in 1..Len(input) : input[i] \notin AlphabetChars
  THEN Base62Error
  ELSE LET num == DecodeLoop(input, 1, <<>>)
       IN  IF num = <<>> THEN [threw |-> FALSE, value |-> <<0>>]
           ELSE [threw |-> FALSE, value |-> BigToBytes(num)]

(***************************************************************************)
(* JavaScript values                                                       *)
(*                                                                         *)
(* Every value that crosses the API carries its run-time type, so that     *)
(* typeof / instanceof / Number.isInteger can be decided as the code       *)
(* decides them.                                                           *)
(***************************************************************************)
Str(chars) == [type |-> "string", v |-> chars]

\* The integer hi * 2^24 + lo as a Number.
Num(hi, lo) == [type |-> "number", v |-> [int |-> TRUE, hi |-> hi, lo |-> lo]]

\* A Number from a model integer (|n| < 2^31).
N(n) == Num(n \div Limb, n % Limb)

Undefined == [type |-> "undefined", v |-> <<>>]

Bytes(b) == [type |-> "Uint8Array", v |-> b]

\* a === b for primitives.
StrictEq(a, b) == a.type = b.type /\ a.v = b.v

\* a < b, a > b for integer Numbers.
NumLt(a, b) == a.v.hi < b.v.hi \/ (a.v.hi = b.v.hi /\ a.v.lo < b.v.lo)
NumGt(a, b) == NumLt(b, a)

\* a + 1.
NumInc(a) ==
  IF a.v.lo + 1 = Limb THEN Num(a.v.hi + 1, 0) ELSE Num(a.v.hi, a.v.lo + 1)

\* Math.pow(2, byteLength * 8) - 1.
Pow256(k) == CASE k = 0 -> 1 [] k = 1 -> 256 [] k = 2 -> 65536 [] k = 3 -> Limb

MaxUint(byteLength) ==
  IF byteLength >= 3 THEN Num(Pow256(byteLength - 3) - 1, Limb - 1)
  ELSE Num(0, Pow256(byteLength) - 1)

(***************************************************************************)
(* The bitwise operators. ECMAScript applies ToInt32 to the left operand   *)
(* (its value modulo 2^32) and masks the shift count to its low 5 bits     *)
(* (count % 32); the result is a signed 32-bit integer. A 32-bit word is   *)
(* modelled as its four bytes, most significant first.                     *)
(***************************************************************************)
ToInt32(n) ==
  << n.v.hi % 256, n.v.lo \div 65536, (n.v.lo \div 256) % 256, n.v.lo % 256 >>

\* (n >> count) & 0xFF, for count a multiple of 8.
ShiftRightMask(n, count) == ToInt32(n)[4 - ((count % 32) \div 8)]

\* byte << count, for count a multiple of 8.
ShiftLeft(byte, count) ==
  [i \in 1..4 |-> IF i = 4 - ((count % 32) \div 8) THEN byte ELSE 0]

RECURSIVE BitOr(_, _)
BitOr(a, b) ==
  IF a = 0 THEN b
  ELSE IF b = 0 THEN a
  ELSE (IF a % 2 = 1 \/ b % 2 = 1 THEN 1 ELSE 0) + 2 * BitOr(a \div 2, b \div 2)

\* w1 | w2 on 32-bit words.
Or32(w1, w2) == [i \in 1..4 |-> BitOr(w1[i], w2[i])]

\* The Number a 32-bit word stands for (two's complement).
WordToNumber(w) ==
  Num(IF w[1] >= 128 THEN w[1] - 256 ELSE w[1], w[2] * 65536 + w[3] * 256 + w[4])

(***************************************************************************)
(* Results: a call returns a value or throws.                              *)
(***************************************************************************)
Return(value) == [threw |-> FALSE, value |-> value]
Throw(name, message) == [threw |-> TRUE, name |-> name, message |-> message]
ValidationError(message) == Throw("ValidationError", message)

(***************************************************************************)
(* constants.ts                                                            *)
(***************************************************************************)
DECODED_LEN == 21
ENCODED_LEN == 29

LowerChars == {ALPHABET[i] : i \in 37..62}
DigitChars == {ALPHABET[i] : i \in 1..10}
UpperChars == {ALPHABET[i] : i \in 11..36}

\* [a-z\d]+ on a whole string.
IsPrefixChars(s) ==
  Len(s) >= 1 /\ \A i \in 1..Len(s) : s[i] \in LowerChars \cup DigitChars

\* PREFIX_REGEX.test(value) for a string value.
PREFIX_REGEX(s) == IsPrefixChars(s)

\* [a-zA-Z\d]{29} on a whole string.
IsPayloadChars(s) ==
  Len(s) = ENCODED_LEN
  /\ \A i \in 1..Len(s) : s[i] \in LowerChars \cup UpperChars \cup DigitChars

\* KSUID_REGEX.exec(input): the set of matches, each the capture groups
\* [environment, resource, encoded]; empty when exec returns null. The
\* character classes hold no "_", so the literal underscores of the pattern
\* are underscores of the input and a match, if any, is unique.
KSUID_REGEX(input) ==
  { [environment |-> Undefined,
     resource |-> SubSeq(input, 1, j - 1),
     encoded |-> SubSeq(input, j + 1, Len(input))] :
      j \in { j \in 1..Len(input) :
                /\ input[j] = "_"
                /\ IsPrefixChars(SubSeq(input, 1, j - 1))
                /\ IsPayloadChars(SubSeq(input, j + 1, Len(input))) } }
  \cup
  { [environment |-> Str(SubSeq(input, 1, ij[1] - 1)),
     resource |-> SubSeq(input, ij[1] + 1, ij[2] - 1),
     encoded |-> SubSeq(input, ij[2] + 1, Len(input))] :
      ij \in { ij \in (1..Len(input)) \X (1..Len(input)) :
                /\ ij[1] < ij[2]
                /\ input[ij[1]] = "_"
                /\ input[ij[2]] = "_"
                /\ IsPrefixChars(SubSeq(input, 1, ij[1] - 1))
                /\ IsPrefixChars(SubSeq(input, ij[1] + 1, ij[2] - 1))
                /\ IsPayloadChars(SubSeq(input, ij[2] + 1, Len(input))) } }

(***************************************************************************)
(* validation.ts: each check is the error it throws, or NoError.           *)
(***************************************************************************)
NoError == [threw |-> FALSE]

checkPrefix(field, value) ==
  IF value.type # "string" THEN ValidationError(field \o " must be a string")
  ELSE IF ~PREFIX_REGEX(value.v)
  THEN ValidationError(field \o " contains invalid characters")
  ELSE NoError

checkUint(field, value, byteLength) ==
  IF ~(value.type = "number" /\ value.v.int)
  THEN ValidationError(field \o " must be an integer")
  ELSE IF value.v.hi < 0 THEN ValidationError(field \o " must be positive")
  ELSE IF NumGt(value, MaxUint(byteLength))
  THEN ValidationError(field \o " must be a uint" \o ToString(byteLength * 8))
  ELSE NoError

checkUint8Array(field, value, byteLength) ==
  IF value.type # "Uint8Array"
  THEN ValidationError(field \o " must be a Uint8Array or derivative")
  ELSE IF Len(value.v) # byteLength
  THEN ValidationError(field \o " must be " \o ToString(byteLength) \o " bytes")
  ELSE NoError

checkInstance(field, value) ==
  IF value.type # "Instance"
  THEN ValidationError(field \o " must be an instance of Instance")
  ELSE NoError

checkString(field, value) ==
  IF value.type # "string" THEN ValidationError(field \o " must be a string")
  ELSE NoError

\* Mutation: the empty string passes.
checkNonEmptyStringLax(field, value) ==
  IF checkString(field, value).threw THEN checkString(field, value)
  ELSE NoError

checkNonEmptyString(field, value) ==
  IF checkString(field, value).threw THEN checkString(field, value)
  ELSE IF Len(value.v) = 0 THEN ValidationError(field \o " must not be empty")
  ELSE NoError

\* The first check of a constructor body that throws, or NoError.
RECURSIVE FirstError(_)
FirstError(checks) ==
  IF checks = <<>> THEN NoError
  ELSE IF checks[1].threw THEN checks[1] ELSE FirstError(Tail(checks))

(***************************************************************************)
(* instance.ts                                                             *)
(***************************************************************************)
\* Mutation: the identifier is not checked.
NewInstanceUncheckedIdentifier(scheme, identifier) ==
  LET err == checkUint("scheme", scheme, 1)
  IN  IF err.threw THEN err
      ELSE Return([type |-> "Instance",
                   v |-> [scheme |-> scheme, identifier |-> identifier.v]])

\* new Instance(scheme, identifier); the identifier is copied.
NewInstance(scheme, identifier) ==
  LET err == FirstError(<< checkUint("scheme", scheme, 1),
                           checkUint8Array("identifier", identifier, 8) >>)
  IN  IF err.threw THEN err
      ELSE Return([type |-> "Instance",
                   v |-> [scheme |-> scheme, identifier |-> identifier.v]])

\* Mutation: the scheme byte is written after the identifier.
InstanceToBufferSchemeLast(instance) ==
  SetAt(SetAt(Zeros(9), <<instance.v.scheme.v.lo % 256>>, 8),
        instance.v.identifier, 0)

\* instance.toBuffer(): 9 bytes, the scheme byte then the identifier.
InstanceToBuffer(instance) ==
  SetAt(SetAt(Zeros(9), <<instance.v.scheme.v.lo % 256>>, 0),
        instance.v.identifier, 1)

\* Instance.fromBuffer(buffer).
InstanceFromBuffer(buffer) ==
  LET err == checkUint8Array("buffer", buffer, 9)
  IN  IF err.threw THEN err
      ELSE NewInstance(N(buffer.v[1]), Bytes(Slice(buffer.v, 1)))

\* this.equals(other) of Instance.
InstanceEquals(this, other) ==
  IF other.type # "Instance" THEN FALSE
  ELSE /\ StrictEq(this.v.scheme, other.v.scheme)
       /\ \A i \in 1..Len(this.v.identifier) :
            /\ i <= Len(other.v.identifier)
            /\ this.v.identifier[i] = other.v.identifier[i]

(***************************************************************************)
(* instance.ts with the arrays as objects: a heap is the sequence of the   *)
(* byte arrays allocated so far, a reference an index into it, and an      *)
(* Instance object the record of its fields _scheme, _identifier and       *)
(* _buffer (references; 0 while _buffer is unset). The arguments are       *)
(* valid: what the checks do is modelled by NewInstance above.             *)
(***************************************************************************)
\* new Uint8Array(h[ref]): a fresh array with the same elements.
CopyArray(h, ref) == [heap |-> Append(h, h[ref]), ref |-> Len(h) + 1]

\* Mutation: the constructor keeps the caller's array.
HeapNewInstanceSharing(h, scheme, identifier) ==
  [heap |-> h,
   object |-> [scheme |-> scheme, identifier |-> identifier, buffer |-> 0]]

\* new Instance(scheme, identifier), identifier a reference.
HeapNewInstance(h, scheme, identifier) ==
  LET copy == CopyArray(h, identifier)
  IN  [heap |-> copy.heap,
       object |-> [scheme |-> scheme, identifier |-> copy.ref, buffer |-> 0]]

\* The identifier getter.
HeapIdentifier(h, this) ==
  LET copy == CopyArray(h, this.identifier)
  IN  [heap |-> copy.heap, object |-> this, result |-> copy.ref]

\* toBuffer().
HeapToBuffer(h, this) ==
  IF this.buffer # 0
  THEN LET copy == CopyArray(h, this.buffer)
       IN  [heap |-> copy.heap, object |-> this, result |-> copy.ref]
  ELSE LET buf  == SetAt(SetAt(Zeros(9), <<this.scheme>>, 0), h[this.identifier], 1)
           copy == CopyArray(Append(h, buf), Len(h) + 1)
       IN  [heap |-> copy.heap,
            object |-> [this EXCEPT !.buffer = Len(h) + 1],
            result |-> copy.ref]

\* this.equals(other) on Instance objects of one heap.
HeapEquals(h, this, other) ==
  /\ this.scheme = other.scheme
  /\ \A i \in 1..Len(h[this.identifier]) :
       /\ i <= Len(h[other.identifier])
       /\ h[this.identifier][i] = h[other.identifier][i]

(***************************************************************************)
(* ksuid.ts                                                                *)
(***************************************************************************)
prod == << "p", "r", "o", "d" >>

\* Mutation: the sequenceId is not checked.
NewKsuidUncheckedSequence(environment, resource, timestamp, instance, sequenceId) ==
  LET err == FirstError(<< checkPrefix("environment", environment),
                           checkPrefix("resource", resource),
                           checkUint("timestamp", timestamp, 6),
                           checkInstance("instance", instance) >>)
  IN  IF err.threw THEN err
      ELSE Return([type |-> "Ksuid",
                   v |-> [environment |-> environment,
                          resource |-> resource,
                          timestamp |-> timestamp,
                          instance |-> instance,
                          sequenceId |-> sequenceId]])

\* new Ksuid(environment, resource, timestamp, instance, sequenceId).
NewKsuid(environment, resource, timestamp, instance, sequenceId) ==
  LET err == FirstError(<< checkPrefix("environment", environment),
                           checkPrefix("resource", resource),
                           checkUint("timestamp", timestamp, 6),
                           checkInstance("instance", instance),
                           checkUint("sequenceId", sequenceId, 4) >>)
  IN  IF err.threw THEN err
      ELSE Return([type |-> "Ksuid",
                   v |-> [environment |-> environment,
                          resource |-> resource,
                          timestamp |-> timestamp,
                          instance |-> instance,
                          sequenceId |-> sequenceId]])

\* The 21-byte buffer toString fills before encoding it.
KsuidDecoded(this) ==
  LET ts  == this.v.timestamp
      seq == this.v.sequenceId
      d0  == SetAt(Zeros(DECODED_LEN),
                   << 0, 0,
                      ShiftRightMask(ts, 40), ShiftRightMask(ts, 32),
                      ShiftRightMask(ts, 24), ShiftRightMask(ts, 16),
                      ShiftRightMask(ts, 8),  ShiftRightMask(ts, 0) >>, 0)
      d1  == SetAt(d0, InstanceToBuffer(this.v.instance), 8)
  IN  SetAt(d1, << ShiftRightMask(seq, 24), ShiftRightMask(seq, 16),
                   ShiftRightMask(seq, 8),  ShiftRightMask(seq, 0) >>, 17)

\* Mutation: the "0" characters are put behind the string.
PadEnd(s, width) ==
  IF Len(s) >= width THEN s
  ELSE [i \in 1..width |-> IF i <= Len(s) THEN s[i] ELSE "0"]

\* s.padStart(width, "0").
PadStart(s, width) ==
  IF Len(s) >= width THEN s
  ELSE [i \in 1..width |-> IF i <= width - Len(s) THEN "0"
                           ELSE s[i - (width - Len(s))]]

\* Mutation: the encoded payload is not padded.
KsuidToStringUnpadded(this) ==
  LET env    == IF StrictEq(this.v.environment, Str(prod)) THEN <<>>
                ELSE this.v.environment.v \o <<"_">>
      prefix == env \o this.v.resource.v \o <<"_">>
  IN  prefix \o encode(KsuidDecoded(this))

\* ksuid.toString(). The cached _string is the value computed here: the
\* fields it is computed from never change.
KsuidToString(this) ==
  LET env    == IF StrictEq(this.v.environment, Str(prod)) THEN <<>>
                ELSE this.v.environment.v \o <<"_">>
      prefix == env \o this.v.resource.v \o <<"_">>
      padded == PadStart(encode(KsuidDecoded(this)), ENCODED_LEN)
  IN  prefix \o padded

\* Mutation: a captured environment "prod" is let through.
splitPrefixIdKeepingProd(input) ==
  LET parsed == KSUID_REGEX(input)
  IN  IF parsed = {} THEN Throw("Error", "ID is invalid")
      ELSE LET m == CHOOSE m \in parsed : TRUE
           IN  Return([environment |->
                         IF m.environment.type = "undefined" THEN Str(prod)
                         ELSE m.environment,
                       resource |-> Str(m.resource),
                       encoded |-> m.encoded])

\* splitPrefixId(input) for a string input.
splitPrefixId(input) ==
  LET parsed == KSUID_REGEX(input)
  IN  IF parsed = {} THEN Throw("Error", "ID is invalid")
      ELSE LET m == CHOOSE m \in parsed : TRUE
           IN  IF StrictEq(m.environment, Str(prod))
               THEN Throw("Error", "Production environment is implied")
               ELSE Return([environment |->
                              IF m.environment.type = "undefined" THEN Str(prod)
                              ELSE m.environment,
                            resource |-> Str(m.resource),
                            encoded |-> m.encoded])

\* The decoded bytes aligned into the DECODED_LEN buffer.
FullDecoded(decoded) ==
  LET start == IF Len(decoded) - DECODED_LEN > 0 THEN Len(decoded) - DECODED_LEN ELSE 0
  IN  SetAt(Zeros(DECODED_LEN), Slice(decoded, start),
            DECODED_LEN - Len(decoded) + start)

\* The fields parse reads from the aligned buffer and hands to the constructor.
ParseFields(split, fullDecoded) ==
  LET timestamp ==
        WordToNumber(
          Or32(Or32(Or32(Or32(Or32(ShiftLeft(fullDecoded[3], 40),
                                   ShiftLeft(fullDecoded[4], 32)),
                              ShiftLeft(fullDecoded[5], 24)),
                         ShiftLeft(fullDecoded[6], 16)),
                    ShiftLeft(fullDecoded[7], 8)),
               ShiftLeft(fullDecoded[8], 0)))
      instance == InstanceFromBuffer(Bytes(Slice2(fullDecoded, 8, 17)))
      sequenceId ==
        WordToNumber(
          Or32(Or32(Or32(ShiftLeft(fullDecoded[18], 24),
                         ShiftLeft(fullDecoded[19], 16)),
                    ShiftLeft(fullDecoded[20], 8)),
               ShiftLeft(fullDecoded[21], 0)))
  IN  IF instance.threw THEN instance
      ELSE NewKsuid(split.environment, split.resource, timestamp,
                    instance.value, sequenceId)

\* Mutation: only the first reserved byte is looked at.
ParseEncodedFirstByteOnly(split) ==
  LET decoded == decode(split.encoded)
  IN  IF decoded.threw THEN decoded
      ELSE LET fullDecoded == FullDecoded(decoded.value)
           IN  IF fullDecoded[1] # 0
               THEN Throw("Error",
                          "Timestamp greater than 8921556-12-07T10:44:16Z")
               ELSE ParseFields(split, fullDecoded)

\* What parse does with the parts splitPrefixId returned.
ParseEncoded(split) ==
  LET decoded == decode(split.encoded)
  IN  IF decoded.threw THEN decoded
      ELSE LET fullDecoded == FullDecoded(decoded.value)
           IN  IF fullDecoded[1] # 0 \/ fullDecoded[2] # 0
               THEN Throw("Error",
                          "Timestamp greater than 8921556-12-07T10:44:16Z")
               ELSE ParseFields(split, fullDecoded)

\* Mutation: the empty string is not told apart from other malformed input.
KsuidParseNoEmptyCheck(input) ==
  IF input.type # "string" THEN Throw("Error", "Input must be a string")
  ELSE LET split == splitPrefixId(input.v)
       IN  IF split.threw THEN split ELSE ParseEncoded(split.value)

\* Ksuid.parse(input).
KsuidParse(input) ==
  IF input.type # "string" THEN Throw("Error", "Input must be a string")
  ELSE IF Len(input.v) = 0 THEN Throw("Error", "Input must not be empty")
  ELSE LET split == splitPrefixId(input.v)
       IN  IF split.threw THEN split ELSE ParseEncoded(split.value)

\* Mutation: the sequenceId is not compared.
KsuidEqualsIgnoringSequence(this, other) ==
  IF other.type # "Ksuid" THEN FALSE
  ELSE /\ StrictEq(this.v.environment, other.v.environment)
       /\ StrictEq(this.v.resource, other.v.resource)
       /\ StrictEq(this.v.timestamp, other.v.timestamp)
       /\ InstanceEquals(this.v.instance, other.v.instance)

\* this.equals(other) of Ksuid.
KsuidEquals(this, other) ==
  IF other.type # "Ksuid" THEN FALSE
  ELSE /\ StrictEq(this.v.environment, other.v.environment)
       /\ StrictEq(this.v.resource, other.v.resource)
       /\ StrictEq(this.v.timestamp, other.v.timestamp)
       /\ InstanceEquals(this.v.instance, other.v.instance)
       /\ StrictEq(this.v.sequenceId, other.v.sequenceId)

(***************************************************************************)
(* node.ts: the generator. A Node is its four private fields; the          *)
(* singleton of index.ts is built with environment "prod", a detected      *)
(* instance, and the Ksuid constructor as its factory.                     *)
(***************************************************************************)
\* new Node("prod", undefined, factory): the instance is whatever
\* createInstance() detected.
NewNode(detected) ==
  [environment |-> Str(prod), instance |-> detected,
   lastTimestamp |-> N(0), currentSequence |-> N(0)]

\* new Node(environment, instance, factory) for any arguments: a parameter
\* left undefined takes its default, and nothing is checked.
NodeConstructor(environment, instance, detected) ==
  [environment |-> IF environment = Undefined THEN Str(prod) ELSE environment,
   instance |-> IF instance = Undefined THEN detected ELSE instance,
   lastTimestamp |-> N(0), currentSequence |-> N(0)]

\* Mutation: the value is stored before it is checked.
NodeSetEnvironmentStoring(node, value) ==
  LET err == checkPrefix("environment", value)
  IN  [node |-> [node EXCEPT !.environment = value],
       result |-> IF err.threw THEN err ELSE Return(Undefined)]

\* set environment(value): [node |-> the node afterwards, result |-> ...].
NodeSetEnvironment(node, value) ==
  LET err == checkPrefix("environment", value)
  IN  IF err.threw THEN [node |-> node, result |-> err]
      ELSE [node |-> [node EXCEPT !.environment = value],
            result |-> Return(Undefined)]

\* Mutation: the value is checked and not stored.
NodeSetInstanceDropping(node, value) ==
  LET err == checkInstance("instance", value)
  IN  IF err.threw THEN [node |-> node, result |-> err]
      ELSE [node |-> node, result |-> Return(Undefined)]

\* set instance(value).
NodeSetInstance(node, value) ==
  LET err == checkInstance("instance", value)
  IN  IF err.threw THEN [node |-> node, result |-> err]
      ELSE [node |-> [node EXCEPT !.instance = value],
            result |-> Return(Undefined)]

\* Mutation: the sequence wraps to 0 past 2^32 - 1.
AdvanceWrapping(node, now) ==
  IF StrictEq(node.lastTimestamp, now)
  THEN [node EXCEPT !.currentSequence =
                      IF node.currentSequence = MaxUint(4) THEN N(0)
                      ELSE NumInc(node.currentSequence)]
  ELSE [node EXCEPT !.lastTimestamp = now, !.currentSequence = N(0)]

\* Mutation: a call in the second already seen skips a sequence number.
AdvanceSkipping(node, now) ==
  IF StrictEq(node.lastTimestamp, now)
  THEN [node EXCEPT !.currentSequence = NumInc(NumInc(node.currentSequence))]
  ELSE [node EXCEPT !.lastTimestamp = now, !.currentSequence = N(0)]

\* Mutation: a call in a new second resets the sequence but keeps the old
\* lastTimestamp.
AdvanceStale(node, now) ==
  IF StrictEq(node.lastTimestamp, now)
  THEN [node EXCEPT !.currentSequence = NumInc(node.currentSequence)]
  ELSE [node EXCEPT !.currentSequence = N(0)]

\* The cursor update of generate, for the clock second now.
Advance(node, now) ==
  IF StrictEq(node.lastTimestamp, now)
  THEN [node EXCEPT !.currentSequence = NumInc(node.currentSequence)]
  ELSE [node EXCEPT !.lastTimestamp = now, !.currentSequence = N(0)]

\* The factory the singleton node is given.
KsuidFactory(environment, resource, timestamp, instance, sequenceId) ==
  NewKsuid(environment, resource, timestamp, instance, sequenceId)

\* Mutation: the call works on the cursor it found and its update is lost.
NodeGenerateDetached(node, resource, now) ==
  LET err == checkNonEmptyString("resource", resource)
  IN  IF err.threw THEN [node |-> node, read |-> FALSE, result |-> err]
      ELSE LET after == Advance(node, now)
           IN  [node |-> node, read |-> TRUE,
                result |-> KsuidFactory(after.environment, resource,
                                        after.lastTimestamp, after.instance,
                                        after.currentSequence)]

\* node.generate(resource) when Date.now() / 1000 floors to now:
\* read tells whether the call got as far as reading the clock.
NodeGenerate(node, resource, now) ==
  LET err == checkNonEmptyString("resource", resource)
  IN  IF err.threw THEN [node |-> node, read |-> FALSE, result |-> err]
      ELSE LET after == Advance(node, now)
           IN  [node |-> after, read |-> TRUE,
                result |-> KsuidFactory(after.environment, resource,
                                        after.lastTimestamp, after.instance,
                                        after.currentSequence)]

(***************************************************************************)
(* Inputs                                                                  *)
(***************************************************************************)
MaxCalls == 2
MaxTicks == 2

user == << "u", "s", "e", "r" >>
dev  == << "d", "e", "v" >>

\* Instances: the three named schemes are not the only ones accepted.
InstanceOf(scheme, byte) ==
  [type |-> "Instance",
   v |-> [scheme |-> N(scheme), identifier |-> [i \in 1..8 |-> byte]]]

Instances == { InstanceOf(82, 1), InstanceOf(255, 255) }

\* Timestamps within the 48-bit field: 0, 1, both sides of 2^16, 2^31 and
\* 2^32, a present-day second, and the largest value 2^48 - 1.
Timestamps ==
  { N(0), N(1), N(65535), N(65536), N(1234567890),
    Num(127, Limb - 1), Num(128, 0), Num(255, Limb - 1), Num(256, 0),
    Num(Limb - 1, Limb - 1) }

\* Sequence ids within the 32-bit field: 0, 1, both sides of 2^31, 2^32 - 1.
SequenceIds == { N(0), N(1), Num(127, Limb - 1), Num(128, 0), Num(255, Limb - 1) }

\* Valid constructor arguments.
FieldGivens ==
  [kind : {"fields"}, environment : {Str(prod), Str(dev)}, resource : {Str(user)},
   timestamp : Timestamps, instance : Instances, sequenceId : SequenceIds]

\* A Number that is not an integer, such as 1.5.
Fraction == [type |-> "number", v |-> [int |-> FALSE, hi |-> 0, lo |-> 1]]

\* A value that is an object of no class of the library.
PlainObject == [type |-> "Object", v |-> <<>>]

\* Constructor arguments of which any may be invalid: per field one valid
\* value and values failing each of its checks (timestamp 2^48 and
\* sequenceId 2^32 among them).
MixedFieldGivens ==
  [kind : {"fields"},
   environment : {Str(dev), Str(<<"D", "e", "v">>), Str(<<>>), N(123)},
   resource : {Str(user), Str(<<"a", "-", "b">>), Undefined},
   timestamp : {N(1), N(-1), Num(Limb, 0), Fraction, Str(<<"1">>)},
   instance : {InstanceOf(82, 1), PlainObject, Bytes(Zeros(9))},
   sequenceId : {N(0), N(-1), Num(256, 0), Fraction, Undefined}]

\* The 29-character text of a payload buffer.
PayloadText(bytes) == PadStart(encode(bytes), ENCODED_LEN)

\* A 21-byte payload in the documented layout: two reserved bytes, six
\* timestamp bytes, the instance bytes (scheme 82, identifier of ones) and
\* four sequence bytes.
Layout(reserved, ts, seq) ==
  reserved \o ts \o <<82, 1, 1, 1, 1, 1, 1, 1, 1>> \o seq

Payloads ==
  { [i \in 1..ENCODED_LEN |-> "0"],
    [i \in 1..ENCODED_LEN |-> "z"],
    PayloadText(Layout(<<0, 0>>, <<0, 0, 0, 0, 0, 1>>, <<0, 0, 0, 0>>)),
    PayloadText(Layout(<<0, 0>>, <<0, 1, 0, 0, 0, 1>>, <<0, 0, 0, 7>>)),
    PayloadText(Layout(<<0, 0>>, <<2, 210, 73, 150, 2, 210>>, <<0, 0, 0, 0>>)),
    PayloadText(Layout(<<0, 0>>, <<0, 0, 128, 0, 0, 0>>, <<0, 0, 0, 0>>)),
    PayloadText(Layout(<<0, 0>>, <<0, 0, 0, 0, 0, 5>>, <<128, 0, 0, 0>>)),
    PayloadText(Layout(<<0, 1>>, <<0, 0, 0, 0, 0, 1>>, <<0, 0, 0, 0>>)),
    PayloadText(Layout(<<1, 0>>, <<0, 0, 0, 0, 0, 1>>, <<0, 0, 0, 0>>)),
    PayloadText(<<1>> \o Layout(<<0, 0>>, <<0, 5, 0, 0, 0, 5>>, <<0, 0, 0, 0>>)) }

\* What precedes the payload: well-formed prefixes, then malformed ones.
Prefixes ==
  { user \o <<"_">>,
    dev \o <<"_">> \o user \o <<"_">>,
    prod \o <<"_">> \o user \o <<"_">>,
    <<"U">> \o user \o <<"_">>,
    dev \o <<"!", "_">> \o user \o <<"_">>,
    <<"_">> \o user \o <<"_">>,
    <<"a", "_">> \o dev \o <<"_">> \o user \o <<"_">>,
    user,
    <<>> }

\* Texts handed to parse: every prefix with every payload, payloads of 28
\* and 30 characters or with a character outside the alphabet, "invalid-format",
\* the empty string, and values that are not strings.
TextGivens ==
  [kind : {"text"},
   input :
     { Str(p \o e) : p \in Prefixes, e \in Payloads }
     \cup { Str(p \o [i \in 1..n |-> "0"]) :
              p \in {user \o <<"_">>, prod \o <<"_">> \o user \o <<"_">>},
              n \in {ENCODED_LEN - 2, ENCODED_LEN - 1, ENCODED_LEN + 1} }
     \cup { Str(user \o <<"_">> \o [i \in 1..ENCODED_LEN |-> IF i = 9 THEN "!" ELSE "0"]),
            Str(<<"i", "n", "v", "a", "l", "i", "d", "-", "f", "o", "r", "m", "a", "t">>),
            Str(<<>>), N(123), Undefined }]

Givens == FieldGivens \cup MixedFieldGivens \cup TextGivens

\* Byte buffers handed to encode: the empty buffer, every single byte,
\* pairs, the buffers of the tests, and buffers of 8, 21 and 32 bytes that
\* are all zero, all 255, or have zero bytes in front.
ByteBuffers ==
  { <<>>, <<1, 2, 3>>, <<1, 2, 3, 4>>, <<0, 0, 1>>, <<0, 0, 0>>,
    <<255, 255, 255, 255>>, <<0, 255, 0>> }
  \cup { <<x>> : x \in Byte }
  \cup { <<x, y>> : x \in {0, 1, 255}, y \in {0, 61, 62, 255} }
  \cup { [i \in 1..n |-> 0] : n \in {8, 21, 32} }
  \cup { [i \in 1..n |-> 255] : n \in {8, 21, 32} }
  \cup { [i \in 1..n |-> IF i <= 2 THEN 0 ELSE (37 * i) % 256] : n \in {8, 21, 32} }
  \cup { [i \in 1..n |-> (i * i) % 256] : n \in {8, 21, 32} }

\* Strings handed to decode: the empty string, every single digit, numerals
\* with "0" digits in front, the strings of the tests, and strings with a
\* character outside the alphabet in each position.
DigitStrings ==
  { <<>>, <<"0", "0">>, <<"0", "0", "0", "z">>, <<"H", "B", "L">>,
    <<"4", "g", "f", "F", "C", "3">>, [i \in 1..ENCODED_LEN |-> "z"],
    [i \in 1..44 |-> ALPHABET[((17 * i) % 62) + 1]] }
  \cup { <<c>> : c \in AlphabetChars }
  \cup { <<c>> : c \in {"!", "_", "-", " ", "+", "/", "="} }
  \cup { [i \in 1..n |-> IF i = k THEN c ELSE ALPHABET[i + 10]] :
           n \in 2..4, k \in 1..4, c \in {"!", "_", " "} }

CodecGivens ==
  [kind : {"bytes"}, input : ByteBuffers]
  \cup [kind : {"string"}, input : DigitStrings]

\* Arguments handed to new Instance: schemes named and unnamed, at and past
\* both ends of a byte, and values that are no integer; identifiers of 8
\* bytes, of other lengths, and values that are no Uint8Array.
SchemeArgs ==
  { N(0), N(68), N(72), N(82), N(255), N(256), N(-1), Fraction,
    Str(<<"R">>), Undefined }

IdentifierArgs ==
  { Bytes([i \in 1..n |-> (x * i) % 256]) :
      n \in {0, 7, 8, 9}, x \in {0, 1, 255} }
  \cup { Undefined, Str(<<"1", "2", "3", "4", "5", "6", "7", "8">>),
         [type |-> "Array", v |-> Zeros(8)] }

\* Arguments handed to Instance.fromBuffer.
BufferArgs ==
  { Bytes(<<scheme>> \o [i \in 1..n |-> (x * i) % 256]) :
      scheme \in {0, 82, 255}, n \in {0, 7, 8, 9}, x \in {0, 1, 255} }
  \cup { Bytes(<<>>), Undefined, Str(<<"R">>), [type |-> "Array", v |-> Zeros(9)] }

InstanceGivens ==
  [kind : {"instance"}, scheme : SchemeArgs, identifier : IdentifierArgs]
  \cup [kind : {"buffer"}, input : BufferArgs]

\* Instances and Ksuids that differ from the first of each set in one field
\* (for the identifier, in its last byte only).
EqualsInstances ==
  { InstanceOf(82, 1), InstanceOf(68, 1),
    [type |-> "Instance",
     v |-> [scheme |-> N(82), identifier |-> <<1, 1, 1, 1, 1, 1, 1, 2>>]] }

EqualsKsuids ==
  { NewKsuid(Str(prod), Str(user), N(1), InstanceOf(82, 1), N(0)).value,
    NewKsuid(Str(dev), Str(user), N(1), InstanceOf(82, 1), N(0)).value,
    NewKsuid(Str(prod), Str(<<"o">>), N(1), InstanceOf(82, 1), N(0)).value,
    NewKsuid(Str(prod), Str(user), N(2), InstanceOf(82, 1), N(0)).value,
    NewKsuid(Str(prod), Str(user), N(1), InstanceOf(82, 1), N(1)).value }
  \cup { NewKsuid(Str(prod), Str(user), N(1), i, N(0)).value : i \in EqualsInstances }

\* Values of other types: undefined, a string, a byte buffer, and plain
\* objects with the fields of an Instance and of a Ksuid.
Strangers ==
  { Undefined, Str(user), Bytes(InstanceToBuffer(InstanceOf(82, 1))),
    [type |-> "Object", v |-> InstanceOf(82, 1).v],
    [type |-> "Object",
     v |-> NewKsuid(Str(prod), Str(user), N(1), InstanceOf(82, 1), N(0)).value.v] }

EqualsGivens ==
  [kind : {"ksuids"}, this : EqualsKsuids,
   other : EqualsKsuids \cup EqualsInstances \cup Strangers]
  \cup [kind : {"instances"}, this : EqualsInstances,
        other : EqualsInstances \cup EqualsKsuids \cup Strangers]


\* Aliasing runs: the scheme and the elements of the array handed to the
\* constructor, how many arrays a run may allocate, and what the caller
\* writes into the arrays it holds.
AliasGivens ==
  [kind : {"alias"}, scheme : {82, 255},
   identifier : { [i \in 1..8 |-> 1], [i \in 1..8 |-> i] }]

MaxArrays == 7

WrittenBytes == {170}

\* Arguments handed to generate and to the setters.
ResourceArgs == { Str(user), Str(<<"o">>), Str(<<"a", "-", "b">>), Str(<<>>), N(123) }
EnvironmentArgs == { Str(prod), Str(dev), Str(<<"D", "e", "v", "!">>), N(123) }
InstanceArgs == Instances \cup { [type |-> "Object", v |-> <<>>] }

\* The first clock second read: 0x4996FFFF, in February 2009.
StartTime == N(1234632703)

VARIABLES
  node,     \* the singleton Node
  ticks,    \* how many times the wall clock has moved on
  calls,    \* the generate calls so far, oldest first
  given,    \* the input of a conversion run, or the latest call of an API run
  phase,    \* how far the conversion run has got
  subject,  \* what new Ksuid(...) or new Instance(...) gave for the given
            \* arguments; in an aliasing run the Instance object and its twin;
            \* in an API run the environment and instance last set
  text,     \* the serialized form: toString() or toBuffer() of the subject,
            \* encode() of the given bytes, or the given text or buffer
  parsed,   \* what Ksuid.parse(text), decode(text),
            \* Instance.fromBuffer(text), equals(other) or the latest call of
            \* an API run gave
  reprint,  \* toString() or toBuffer() of the parsed object
  heap,     \* the byte arrays allocated in an aliasing run, by reference
  held      \* the references the caller of an aliasing run holds

vars == << node, ticks, calls, given, phase, subject, text, parsed, reprint,
          heap, held >>

genVars == << node, ticks, calls >>
runVars == << given, phase, subject, text, parsed, reprint >>
memVars == << heap, held >>

\* Math.floor(Date.now() / 1000): the seconds at which the clock is read.
\* From StartTime the clock moves on by one second, then by 2^32 - 1
\* seconds, and so on in turn, so that consecutive seconds, seconds on both
\* sides of a multiple of 2^16, and seconds 2^32 apart are all read.
Clock ==
  LET lo == StartTime.v.lo + (ticks % 2)
  IN  Num(StartTime.v.hi + (256 * (ticks \div 2)) + (lo \div Limb), lo % Limb)

(***************************************************************************)
(* The generator in use                                                    *)
(***************************************************************************)
InitNode ==
  /\ node = NewNode(InstanceOf(82, 1))
  /\ ticks = 0
  /\ calls = <<>>

IdleRun ==
  /\ given = Undefined
  /\ phase = "idle"
  /\ subject = Undefined
  /\ text = Undefined
  /\ parsed = Undefined
  /\ reprint = Undefined

IdleHeap ==
  /\ heap = <<>>
  /\ held = {}

Init == InitNode /\ IdleRun /\ IdleHeap

\* Time passes: the clock moves on to the next second that is read.
Tick ==
  /\ ticks < MaxTicks
  /\ ticks' = ticks + 1
  /\ UNCHANGED << node, calls, runVars, memVars >>

\* generate(resource). A call that read the clock is recorded with the
\* second it read, the cursor it left, what it returned or threw, and the
\* text form of a returned Ksuid; a call rejected before the clock read
\* leaves no record.
Generate(resource) ==
  /\ Len(calls) < MaxCalls
  /\ LET g == NodeGenerate(node, resource, Clock)
     IN  /\ node' = g.node
         /\ calls' = IF ~g.read THEN calls
                     ELSE Append(calls,
                            [resource |-> resource, now |-> Clock,
                             lastTimestamp |-> g.node.lastTimestamp,
                             currentSequence |-> g.node.currentSequence,
                             result |-> g.result,
                             text |-> IF g.result.threw THEN <<>>
                                      ELSE KsuidToString(g.result.value)])
  /\ UNCHANGED << ticks, runVars, memVars >>

\* setEnvironment(value).
SetEnvironment(value) ==
  /\ node' = NodeSetEnvironment(node, value).node
  /\ UNCHANGED << ticks, calls, runVars, memVars >>

\* setInstance(value).
SetInstance(value) ==
  /\ node' = NodeSetInstance(node, value).node
  /\ UNCHANGED << ticks, calls, runVars, memVars >>

Next ==
  \/ Tick
  \/ \E resource \in ResourceArgs : Generate(resource)
  \/ \E value \in EnvironmentArgs : SetEnvironment(value)
  \/ \E value \in InstanceArgs : SetInstance(value)

Spec == Init /\ [][Next]_vars

(***************************************************************************)
(* Conversion runs: construct, print, parse, print again                   *)
(***************************************************************************)
InitRun ==
  /\ given \in Givens
  /\ phase = "given"
  /\ subject = Undefined
  /\ text = IF given.kind = "text" THEN given.input ELSE Undefined
  /\ parsed = Undefined
  /\ reprint = Undefined
  /\ InitNode
  /\ IdleHeap

\* new Ksuid(environment, resource, timestamp, instance, sequenceId).
Construct ==
  /\ phase = "given"
  /\ given.kind = "fields"
  /\ subject' = NewKsuid(given.environment, given.resource, given.timestamp,
                         given.instance, given.sequenceId)
  /\ phase' = "constructed"
  /\ UNCHANGED << given, text, parsed, reprint, genVars, memVars >>

\* subject.toString().
Stringify ==
  /\ phase = "constructed"
  /\ ~subject.threw
  /\ text' = Str(KsuidToString(subject.value))
  /\ phase' = "printed"
  /\ UNCHANGED << given, subject, parsed, reprint, genVars, memVars >>

\* Ksuid.parse(text).
Parse ==
  /\ \/ phase = "printed"
     \/ phase = "given" /\ given.kind = "text"
  /\ parsed' = KsuidParse(text)
  /\ phase' = "parsed"
  /\ UNCHANGED << given, subject, text, reprint, genVars, memVars >>

\* parsed.toString().
Reprint ==
  /\ phase = "parsed"
  /\ ~parsed.threw
  /\ reprint' = Str(KsuidToString(parsed.value))
  /\ phase' = "reprinted"
  /\ UNCHANGED << given, subject, text, parsed, genVars, memVars >>

NextRun == Construct \/ Stringify \/ Parse \/ Reprint

SpecRun == InitRun /\ [][NextRun]_vars

(***************************************************************************)
(* Codec runs: encode a buffer and decode the result, or decode a string   *)
(***************************************************************************)
InitCodec ==
  /\ given \in CodecGivens
  /\ phase = "given"
  /\ subject = Undefined
  /\ text = IF given.kind = "string" THEN Str(given.input) ELSE Undefined
  /\ parsed = Undefined
  /\ reprint = Undefined
  /\ InitNode
  /\ IdleHeap

\* encode(given bytes).
Encode ==
  /\ phase = "given"
  /\ given.kind = "bytes"
  /\ text' = Str(encode(given.input))
  /\ phase' = "encoded"
  /\ UNCHANGED << given, subject, parsed, reprint, genVars, memVars >>

\* decode(text).
Decode ==
  /\ \/ phase = "encoded"
     \/ phase = "given" /\ given.kind = "string"
  /\ parsed' = decode(text.v)
  /\ phase' = "decoded"
  /\ UNCHANGED << given, subject, text, reprint, genVars, memVars >>

NextCodec == Encode \/ Decode

SpecCodec == InitCodec /\ [][NextCodec]_vars

(***************************************************************************)
(* Instance runs: construct, toBuffer, fromBuffer, toBuffer again          *)
(***************************************************************************)
InitInstance ==
  /\ given \in InstanceGivens
  /\ phase = "given"
  /\ subject = Undefined
  /\ text = IF given.kind = "buffer" THEN given.input ELSE Undefined
  /\ parsed = Undefined
  /\ reprint = Undefined
  /\ InitNode
  /\ IdleHeap

\* new Instance(scheme, identifier).
ConstructInstance ==
  /\ phase = "given"
  /\ given.kind = "instance"
  /\ subject' = NewInstance(given.scheme, given.identifier)
  /\ phase' = "constructed"
  /\ UNCHANGED << given, text, parsed, reprint, genVars, memVars >>

\* subject.toBuffer().
ToBuffer ==
  /\ phase = "constructed"
  /\ ~subject.threw
  /\ text' = Bytes(InstanceToBuffer(subject.value))
  /\ phase' = "buffered"
  /\ UNCHANGED << given, subject, parsed, reprint, genVars, memVars >>

\* Instance.fromBuffer(text).
FromBuffer ==
  /\ \/ phase = "buffered"
     \/ phase = "given" /\ given.kind = "buffer"
  /\ parsed' = InstanceFromBuffer(text)
  /\ phase' = "rebuilt"
  /\ UNCHANGED << given, subject, text, reprint, genVars, memVars >>

\* parsed.toBuffer().
Rebuffer ==
  /\ phase = "rebuilt"
  /\ ~parsed.threw
  /\ reprint' = Bytes(InstanceToBuffer(parsed.value))
  /\ phase' = "rebuffered"
  /\ UNCHANGED << given, subject, text, parsed, genVars, memVars >>

NextInstance == ConstructInstance \/ ToBuffer \/ FromBuffer \/ Rebuffer

SpecInstance == InitInstance /\ [][NextInstance]_vars

(***************************************************************************)
(* Comparisons: this.equals(other)                                         *)
(***************************************************************************)
InitEquals ==
  /\ given \in EqualsGivens
  /\ phase = "given"
  /\ subject = Undefined
  /\ text = Undefined
  /\ parsed = Undefined
  /\ reprint = Undefined
  /\ InitNode
  /\ IdleHeap

\* this.equals(other) of Ksuid.
EqualsKsuid ==
  /\ phase = "given"
  /\ given.kind = "ksuids"
  /\ parsed' = Return(KsuidEquals(given.this, given.other))
  /\ phase' = "compared"
  /\ UNCHANGED << given, subject, text, reprint, genVars, memVars >>

\* this.equals(other) of Instance.
EqualsInstance ==
  /\ phase = "given"
  /\ given.kind = "instances"
  /\ parsed' = Return(InstanceEquals(given.this, given.other))
  /\ phase' = "compared"
  /\ UNCHANGED << given, subject, text, reprint, genVars, memVars >>

NextEquals == EqualsKsuid \/ EqualsInstance

SpecEquals == InitEquals /\ [][NextEquals]_vars

(***************************************************************************)
(* Aliasing runs: an Instance is constructed from an array the caller      *)
(* keeps; the caller reads arrays from it and writes into every array it   *)
(* holds. A twin is constructed from an equal array nobody else refers to. *)
(***************************************************************************)
InitAlias ==
  /\ given \in AliasGivens
  /\ phase = "given"
  /\ subject = Undefined
  /\ text = Undefined
  /\ parsed = Undefined
  /\ reprint = Undefined
  /\ heap = << given.identifier, given.identifier >>
  /\ held = {1}
  /\ InitNode

\* new Instance(scheme, identifier) on the caller's array (reference 1),
\* and the twin on the other.
NewAliased ==
  /\ phase = "given"
  /\ given.kind = "alias"
  /\ LET a == HeapNewInstance(heap, given.scheme, 1)
         b == HeapNewInstance(a.heap, given.scheme, 2)
     IN  /\ heap' = b.heap
         /\ subject' = [object |-> a.object, twin |-> b.object]
  /\ phase' = "live"
  /\ UNCHANGED << given, text, parsed, reprint, held, genVars >>

\* instance.identifier: the caller keeps the array returned.
ReadIdentifier ==
  /\ phase = "live"
  /\ Len(heap) < MaxArrays
  /\ LET r == HeapIdentifier(heap, subject.object)
     IN  /\ heap' = r.heap
         /\ held' = held \cup {r.result}
  /\ UNCHANGED << given, phase, subject, text, parsed, reprint, genVars >>

\* instance.toBuffer(): the caller keeps the array returned.
ReadBuffer ==
  /\ phase = "live"
  /\ LET r == HeapToBuffer(heap, subject.object)
     IN  /\ Len(r.heap) <= MaxArrays
         /\ heap' = r.heap
         /\ subject' = [subject EXCEPT !.object = r.object]
         /\ held' = held \cup {r.result}
  /\ UNCHANGED << given, phase, text, parsed, reprint, genVars >>

\* array[index] = value on an array the caller holds.
Write(ref, index, value) ==
  /\ phase = "live"
  /\ ref \in held
  /\ index < Len(heap[ref])
  /\ heap' = [heap EXCEPT ![ref][index + 1] = value]
  /\ UNCHANGED << given, phase, subject, text, parsed, reprint, held, genVars >>

NextAlias ==
  \/ NewAliased
  \/ ReadIdentifier
  \/ ReadBuffer
  \/ \E ref \in 1..MaxArrays, index \in {0, 8}, value \in WrittenBytes :
       Write(ref, index, value)

SpecAlias == InitAlias /\ [][NextAlias]_vars

(***************************************************************************)
(* API runs: the exported functions on the singleton node, each call       *)
(* recorded with its argument, the node it found and what it gave          *)
(***************************************************************************)
\* Arguments of the calls of an API run: a valid value and both kinds of
\* rejected resource, the default environment, another and a rejected one.
ApiResources == { Str(user), Str(<<>>), N(123) }
ApiEnvironments == { Str(prod), Str(dev), Str(<<"D", "e", "v", "!">>) }

\* getEnvironment(), getInstance().
getEnvironment == node.environment
getInstance == node.instance

InitApi ==
  /\ InitNode
  /\ IdleHeap
  /\ given = Undefined
  /\ phase = "api"
  /\ subject = [environment |-> getEnvironment, instance |-> getInstance]
  /\ text = Undefined
  /\ parsed = Undefined
  /\ reprint = Undefined

\* generate(resource). A call that read the clock is added to calls with
\* the environment and instance last set; MaxCalls bounds those calls.
CallGenerate(resource) ==
  /\ LET g == NodeGenerate(node, resource, Clock)
     IN  /\ g.read => Len(calls) < MaxCalls
         /\ node' = g.node
         /\ given' = [kind |-> "generate", input |-> resource,
                      before |-> node, read |-> g.read]
         /\ parsed' = g.result
         /\ calls' = IF ~g.read THEN calls
                     ELSE Append(calls,
                            [resource |-> resource, now |-> Clock,
                             configured |-> subject, result |-> g.result])
  /\ UNCHANGED << ticks, phase, subject, text, reprint, memVars >>

\* setEnvironment(value).
CallSetEnvironment(value) ==
  /\ LET r == NodeSetEnvironment(node, value)
     IN  /\ node' = r.node
         /\ given' = [kind |-> "setEnvironment", input |-> value,
                      before |-> node, read |-> FALSE]
         /\ parsed' = r.result
         /\ subject' = IF r.result.threw THEN subject
                       ELSE [subject EXCEPT !.environment = value]
  /\ UNCHANGED << ticks, calls, phase, text, reprint, memVars >>

\* setInstance(value).
CallSetInstance(value) ==
  /\ LET r == NodeSetInstance(node, value)
     IN  /\ node' = r.node
         /\ given' = [kind |-> "setInstance", input |-> value,
                      before |-> node, read |-> FALSE]
         /\ parsed' = r.result
         /\ subject' = IF r.result.threw THEN subject
                       ELSE [subject EXCEPT !.instance = value]
  /\ UNCHANGED << ticks, calls, phase, text, reprint, memVars >>

NextApi ==
  \/ Tick
  \/ \E resource \in ApiResources : CallGenerate(resource)
  \/ \E value \in ApiEnvironments : CallSetEnvironment(value)
  \/ \E value \in InstanceArgs : CallSetInstance(value)

SpecApi == InitApi /\ [][NextApi]_vars

(***************************************************************************)
(* Overflow runs: the generator, with the many generate calls that take    *)
(* the sequence to the end of the 32-bit field within one second folded    *)
(* into one step                                                           *)
(***************************************************************************)
\* Where a burst of calls leaves currentSequence: at 2^32 - 2 or 2^32 - 1.
BurstEnds == { Num(255, Limb - 2), Num(255, Limb - 1) }

\* generate("user") called again and again within the current second until
\* currentSequence is end: the first of these calls starts the second at 0
\* unless it is the second of the last call, each later one finds
\* lastTimestamp === now and adds 1, and the Ksuids returned are not kept.
Burst(end) ==
  /\ StrictEq(node.lastTimestamp, Clock) => NumLt(node.currentSequence, end)
  /\ node' = [node EXCEPT !.lastTimestamp = Clock, !.currentSequence = end]
  /\ UNCHANGED << ticks, calls, runVars, memVars >>

NextOverflow ==
  \/ Tick
  \/ \E resource \in ResourceArgs : Generate(resource)
  \/ \E end \in BurstEnds : Burst(end)

SpecOverflow == Init /\ [][NextOverflow]_vars

(***************************************************************************)
(* Task runs: several asynchronous callers share the singleton node. A     *)
(* caller is suspended only at its own awaits; generate has none, so a     *)
(* call runs from its resource check to its return as one step.            *)
(***************************************************************************)
Tasks == { "t1", "t2", "t3" }

InitTasks ==
  /\ InitNode
  /\ IdleHeap
  /\ given = Undefined
  /\ phase = "tasks"
  /\ subject = [t \in Tasks |->
                  [pc |-> "waiting", seen |-> Undefined, result |-> Undefined]]
  /\ text = Undefined
  /\ parsed = Undefined
  /\ reprint = Undefined

\* Task t is resumed and calls generate(resource): seen is the cursor the
\* call found.
TaskGenerate(t, resource) ==
  /\ subject[t].pc = "waiting"
  /\ LET g == NodeGenerate(node, resource, Clock)
     IN  /\ node' = g.node
         /\ subject' = [subject EXCEPT ![t] =
                          [pc |-> "minted",
                           seen |-> [lastTimestamp |-> node.lastTimestamp,
                                     currentSequence |-> node.currentSequence],
                           result |-> g.result]]
  /\ UNCHANGED << ticks, calls, given, phase, text, parsed, reprint, memVars >>

NextTasks ==
  \/ Tick
  \/ \E t \in Tasks : \E resource \in { Str(user), Str(<<"o">>) } :
       TaskGenerate(t, resource)

SpecTasks == InitTasks /\ [][NextTasks]_vars

(***************************************************************************)
(* Skewed runs: the generator under a wall clock that may also be set      *)
(* back between calls, and with calls whose Ksuid the caller does not keep *)
(***************************************************************************)
\* Date.now() is the wall clock: an adjustment sets it back a second.
Rewind ==
  /\ ticks > 0
  /\ ticks' = ticks - 1
  /\ UNCHANGED << node, calls, runVars, memVars >>

\* generate("user") by a caller that does not keep what it returns, in a
\* second other than that of the call before.
Unkept ==
  /\ ~StrictEq(node.lastTimestamp, Clock)
  /\ node' = NodeGenerate(node, Str(user), Clock).node
  /\ UNCHANGED << ticks, calls, runVars, memVars >>

NextSkew ==
  \/ Tick
  \/ Rewind
  \/ \E resource \in ApiResources : Generate(resource)
  \/ Unkept

SpecSkew == Init /\ [][NextSkew]_vars

(***************************************************************************)
(* Built runs: a Node constructed by the caller, with the Ksuid            *)
(* constructor as its factory, then used through its setters and generate  *)
(***************************************************************************)
InitBuilt ==
  /\ node \in { NodeConstructor(environment, instance, InstanceOf(82, 1)) :
                  environment \in { Undefined, Str(dev), Str(<<"D", "e", "v", "!">>) },
                  instance \in { Undefined, InstanceOf(255, 255), PlainObject } }
  /\ ticks = 0
  /\ calls = <<>>
  /\ IdleRun
  /\ IdleHeap

NextBuilt ==
  \/ \E resource \in ApiResources : Generate(resource)
  \/ \E value \in ApiEnvironments : SetEnvironment(value)
  \/ \E value \in InstanceArgs : SetInstance(value)

SpecBuilt == InitBuilt /\ [][NextBuilt]_vars

(***************************************************************************)
(* Order runs: two 21-byte payloads are each encoded and padded as         *)
(* toString does                                                           *)
(***************************************************************************)
\* Payloads of 21 bytes: all zero, small values either side of a power of
\* 62, values that differ in the first byte, in the last byte or in the
\* middle only, and the largest.
OrderPayloads ==
  { [i \in 1..DECODED_LEN |-> IF i = DECODED_LEN THEN x ELSE 0] :
      x \in {0, 1, 9, 10, 35, 36, 61, 62, 255} }
  \cup { [i \in 1..DECODED_LEN |-> IF i = k THEN x ELSE 0] :
           k \in {1, 2, 11, DECODED_LEN - 1}, x \in {1, 255} }
  \cup { [i \in 1..DECODED_LEN |-> IF i = 1 THEN x ELSE 255] : x \in {0, 254, 255} }
  \cup { Layout(<<0, 0>>, <<0, 0, 73, 150, 2, 210>>, <<0, 0, 0, x>>) : x \in {0, 1} }

InitOrder ==
  /\ given \in [kind : {"pair"}, a : OrderPayloads, b : OrderPayloads]
  /\ phase = "given"
  /\ subject = Undefined
  /\ text = Undefined
  /\ parsed = Undefined
  /\ reprint = Undefined
  /\ InitNode
  /\ IdleHeap

\* encode(a).padStart(ENCODED_LEN, "0") and the same for b.
PadPair ==
  /\ phase = "given"
  /\ given.kind = "pair"
  /\ text' = Str(PadStart(encode(given.a), ENCODED_LEN))
  /\ reprint' = Str(PadStart(encode(given.b), ENCODED_LEN))
  /\ phase' = "padded"
  /\ UNCHANGED << given, subject, parsed, genVars, memVars >>

NextOrder == PadPair

SpecOrder == InitOrder /\ [][NextOrder]_vars

(***************************************************************************)
(* Properties of the generator                                             *)
(***************************************************************************)
\* The UTF-16 code unit of a character of the text form.
CharCode(c) ==
  IF c \in DigitChars THEN 48 + ENCODE_LOOKUP[c]
  ELSE IF c \in UpperChars THEN 65 + (ENCODE_LOOKUP[c] - 10)
  ELSE IF c \in LowerChars THEN 97 + (ENCODE_LOOKUP[c] - 36)
  ELSE 95

\* a <= b for strings, by code units.
StringLeq(a, b) ==
  LET differ == {i \in 1..Len(a) : i > Len(b) \/ a[i] # b[i]}
  IN  IF differ = {} THEN TRUE
      ELSE LET k == CHOOSE i \in differ : \A j \in differ : i <= j
           IN  k <= Len(b) /\ CharCode(a[k]) < CharCode(b[k])

\* The recorded calls that returned a Ksuid, by position in calls.
Minted == {i \in 1..Len(calls) : ~calls[i].result.threw}

IdOf(i) == calls[i].result.value

SameOrigin(i, j) ==
  /\ calls[i].resource = calls[j].resource
  /\ StrictEq(IdOf(i).v.environment, IdOf(j).v.environment)
  /\ InstanceEquals(IdOf(i).v.instance, IdOf(j).v.instance)

\* C2: IDs minted one after another for the same resource, with the
\* environment and the instance unchanged, have text forms in non-decreasing
\* code-unit order in mint order.
C2_SortOrder ==
  \A i \in Minted : \A j \in Minted :
    (i < j /\ SameOrigin(i, j)) => StringLeq(calls[i].text, calls[j].text)

\* C3: any two IDs returned by distinct generate calls have different text
\* forms.
C3_Uniqueness ==
  \A i \in Minted : \A j \in Minted :
    i # j => calls[i].text # calls[j].text

\* C4: of two consecutive generate calls that read the clock, the second
\* leaves the sequence one above the first's when both read the same second,
\* and leaves sequence 0 and lastTimestamp at the second it read otherwise;
\* a returned ID carries the sequence its call left.
C4_SequenceMonotonicity ==
  /\ \A i \in Minted :
       StrictEq(IdOf(i).v.sequenceId, calls[i].currentSequence)
  /\ \A i \in 1..(Len(calls) - 1) :
       LET a == calls[i]
           b == calls[i + 1]
       IN  IF StrictEq(a.now, b.now)
           THEN StrictEq(b.currentSequence, NumInc(a.currentSequence))
           ELSE /\ StrictEq(b.currentSequence, N(0))
                /\ StrictEq(b.lastTimestamp, b.now)

\* C4 happens: two consecutive calls for different resources read the same
\* second and both return an ID, the second with sequenceId 1.
C4_Witness ==
  /\ Len(calls) = 2
  /\ Minted = {1, 2}
  /\ calls[1].resource # calls[2].resource
  /\ StrictEq(calls[1].now, calls[2].now)
  /\ StrictEq(IdOf(1).v.sequenceId, N(0))
  /\ StrictEq(IdOf(2).v.sequenceId, N(1))

\* C5: every minted ID embeds the clock second its call read, and of two
\* IDs minted one after the other the later has the greater timestamp, or
\* the same timestamp and a greater sequenceId.
C5_TimestampSequenceIncreasing ==
  /\ \A i \in Minted : StrictEq(IdOf(i).v.timestamp, calls[i].now)
  /\ \A i \in Minted : \A j \in Minted :
       i < j =>
         \/ NumLt(IdOf(i).v.timestamp, IdOf(j).v.timestamp)
         \/ /\ StrictEq(IdOf(i).v.timestamp, IdOf(j).v.timestamp)
            /\ NumLt(IdOf(i).v.sequenceId, IdOf(j).v.sequenceId)

\* C5 happens: two IDs are minted at different clock seconds.
C5_Witness ==
  /\ Minted = {1, 2}
  /\ NumLt(calls[1].now, calls[2].now)
  /\ StrictEq(IdOf(2).v.timestamp, calls[2].now)

(***************************************************************************)
(* Properties of the text form                                             *)
(***************************************************************************)
RangeError == Throw("Error", "Timestamp greater than 8921556-12-07T10:44:16Z")
ProdError  == Throw("Error", "Production environment is implied")

\* The one match of the grammar on a text it matches.
Match(chars) == CHOOSE m \in KSUID_REGEX(chars) : TRUE

\* A given text that is a string matching the grammar.
GivenMatches ==
  /\ given.kind = "text"
  /\ given.input.type = "string"
  /\ KSUID_REGEX(given.input.v) # {}

\* Some reserved byte of the given text's payload, once aligned, is not 0.
GivenReservedNonZero ==
  LET fullDecoded == FullDecoded(decode(Match(given.input.v).encoded).value)
  IN  fullDecoded[1] # 0 \/ fullDecoded[2] # 0

\* C1: the text of a Ksuid constructed from a valid tuple parses, and to a
\* Ksuid that equals() the constructed one.
C1_RoundTrip ==
  (phase = "parsed" /\ given.kind = "fields" /\ ~subject.threw)
    => /\ ~parsed.threw
       /\ KsuidEquals(subject.value, parsed.value)

\* C6: toString() of a valid Ksuid is resource, "_" and 29 base62
\* characters, preceded by environment and "_" exactly when the environment
\* is not "prod"; the 29 characters are the encoding of the 21-byte payload,
\* which is at most 29 characters long, left-padded with "0"; the grammar
\* matches the text with these parts.
C6_CanonicalTextForm ==
  (phase = "printed" /\ given.kind = "fields")
    => LET k       == subject.value.v
           t       == text.v
           encoded == encode(KsuidDecoded(subject.value))
           cut     == Len(t) - ENCODED_LEN
           payload == SubSeq(t, cut + 1, Len(t))
           pad     == ENCODED_LEN - Len(encoded)
       IN  /\ Len(encoded) <= ENCODED_LEN
           /\ cut >= 1
           /\ SubSeq(t, 1, cut) =
                (IF k.environment.v = prod THEN <<>> ELSE k.environment.v \o <<"_">>)
                  \o k.resource.v \o <<"_">>
           /\ \A i \in 1..ENCODED_LEN :
                payload[i] = IF i <= pad THEN "0" ELSE encoded[i - pad]
           /\ \A i \in 1..ENCODED_LEN : payload[i] \in AlphabetChars
           /\ KSUID_REGEX(t) =
                { [environment |-> IF k.environment.v = prod THEN Undefined
                                   ELSE k.environment,
                   resource |-> k.resource.v,
                   encoded |-> payload] }

\* C6 happens: a Ksuid of environment "dev" whose payload encodes to fewer
\* than 29 characters has been printed.
C6_Witness ==
  /\ phase = "printed"
  /\ given.kind = "fields"
  /\ subject.value.v.environment = Str(dev)
  /\ Len(encode(KsuidDecoded(subject.value))) < ENCODED_LEN
  /\ KSUID_REGEX(text.v) # {}

\* C7: the text form of the Ksuid parsed from an accepted text is that text.
C7_Bijection ==
  (phase = "reprinted" /\ given.kind = "text") => reprint = text

\* C8: a text matching the grammar with the environment group "prod" makes
\* parse throw "Production environment is implied"; a matching text with no
\* environment group never does, is split with environment "prod", and a
\* Ksuid parsed from it has environment "prod".
C8_ProdImplied ==
  (phase = "parsed" /\ GivenMatches)
    => LET m == Match(text.v)
       IN  /\ m.environment = Str(prod) => parsed = ProdError
           /\ m.environment = Undefined =>
                /\ parsed # ProdError
                /\ ~splitPrefixId(text.v).threw
                /\ splitPrefixId(text.v).value.environment = Str(prod)
                /\ ~parsed.threw => parsed.value.v.environment = Str(prod)

\* C8 happens: "prod_user_" followed by 29 "0" characters has been parsed.
C8_Witness ==
  /\ phase = "parsed"
  /\ text = Str(prod \o <<"_">> \o user \o <<"_">> \o [i \in 1..ENCODED_LEN |-> "0"])
  /\ parsed = ProdError

C10_Original ==
  (phase = "parsed" /\ GivenMatches /\ GivenReservedNonZero)
    => parsed = RangeError

\* C10, amended: a text matching the grammar whose environment group is not
\* "prod" and whose aligned payload has byte 0 or byte 1 non-zero makes
\* parse throw the range error.
C10_ReservedBytes ==
  (/\ phase = "parsed"
   /\ GivenMatches
   /\ Match(given.input.v).environment # Str(prod)
   /\ GivenReservedNonZero)
    => parsed = RangeError

\* C10 happens: a text whose payload has byte 0 zero and byte 1 non-zero
\* has been parsed.
C10_Witness ==
  /\ phase = "parsed"
  /\ GivenMatches
  /\ Match(given.input.v).environment = Str(dev)
  /\ LET fullDecoded == FullDecoded(decode(Match(given.input.v).encoded).value)
     IN  fullDecoded[1] = 0 /\ fullDecoded[2] # 0
  /\ parsed = RangeError

(***************************************************************************)
(* Properties of construction                                              *)
(***************************************************************************)
\* A string of one or more characters a-z, 0-9.
IsPrefix(x) == x.type = "string" /\ IsPrefixChars(x.v)

\* An integer Number in [0, 2^(8 * byteLength) - 1], for byteLength >= 3.
IsUint(x, byteLength) ==
  /\ x.type = "number"
  /\ x.v.int
  /\ 0 <= x.v.hi
  /\ x.v.hi < Pow256(byteLength - 3)

\* The field invariants of a Ksuid.
FieldsValid(environment, resource, timestamp, instance, sequenceId) ==
  /\ IsPrefix(environment)
  /\ IsPrefix(resource)
  /\ IsUint(timestamp, 6)
  /\ instance.type = "Instance"
  /\ IsUint(sequenceId, 4)

\* The message for a prefix field that is not valid.
PrefixMessage(field, x) ==
  IF x.type # "string" THEN field \o " must be a string"
  ELSE field \o " contains invalid characters"

\* The message for an unsigned integer field that is not valid.
UintMessage(field, x, bits) ==
  IF ~(x.type = "number" /\ x.v.int) THEN field \o " must be an integer"
  ELSE IF x.v.hi < 0 THEN field \o " must be positive"
  ELSE field \o " must be a uint" \o bits

\* The message naming the first offending field of the given arguments.
FirstOffence ==
  IF ~IsPrefix(given.environment) THEN PrefixMessage("environment", given.environment)
  ELSE IF ~IsPrefix(given.resource) THEN PrefixMessage("resource", given.resource)
  ELSE IF ~IsUint(given.timestamp, 6) THEN UintMessage("timestamp", given.timestamp, "48")
  ELSE IF given.instance.type # "Instance" THEN "instance must be an instance of Instance"
  ELSE UintMessage("sequenceId", given.sequenceId, "32")

\* C11: new Ksuid(...) returns a Ksuid holding the arguments exactly when
\* every argument satisfies its field invariant, and otherwise throws a
\* ValidationError naming the first offending field and its constraint;
\* every Ksuid parse returns satisfies the field invariants.
C11_ConstructorValidation ==
  /\ (given.kind = "fields" /\ phase # "given")
       => IF FieldsValid(given.environment, given.resource, given.timestamp,
                         given.instance, given.sequenceId)
          THEN /\ ~subject.threw
               /\ subject.value.type = "Ksuid"
               /\ subject.value.v =
                    [environment |-> given.environment,
                     resource |-> given.resource,
                     timestamp |-> given.timestamp,
                     instance |-> given.instance,
                     sequenceId |-> given.sequenceId]
          ELSE subject = Throw("ValidationError", FirstOffence)
  /\ (phase \in {"parsed", "reprinted"} /\ ~parsed.threw)
       => LET k == parsed.value.v
          IN  FieldsValid(k.environment, k.resource, k.timestamp,
                          k.instance, k.sequenceId)

\* C11 happens: the constructor was given sequenceId 2^32 with the other
\* arguments valid and threw.
C11_Witness ==
  /\ phase = "constructed"
  /\ given.kind = "fields"
  /\ IsUint(given.timestamp, 6)
  /\ given.sequenceId = Num(256, 0)
  /\ subject = Throw("ValidationError", "sequenceId must be a uint32")

(***************************************************************************)
(* Properties of the numeral codec                                         *)
(***************************************************************************)
\* C12: decode(encode(b)) never throws, is no longer than b, and with zero
\* bytes put in front up to the length of b is b; when b has no zero byte
\* in front it is b itself.
C12_CodecRoundTrip ==
  (phase = "decoded" /\ given.kind = "bytes")
    => /\ ~parsed.threw
       /\ LET b == given.input
              d == parsed.value
          IN  /\ Len(d) <= Len(b)
              /\ Zeros(Len(b) - Len(d)) \o d = b
              /\ (b = <<>> \/ b[1] # 0) => d = b

\* C12 happens: a 32-byte buffer with two zero bytes in front has been
\* encoded and decoded, to 30 bytes.
C12_Witness ==
  /\ phase = "decoded"
  /\ given.kind = "bytes"
  /\ Len(given.input) = 32
  /\ given.input[1] = 0
  /\ given.input[3] # 0
  /\ ~parsed.threw
  /\ Len(parsed.value) = 30

\* Fourteen primes below 2^20. Their product is above 2^256 and above
\* 62^44, so two naturals below those that agree modulo each prime are equal.
Moduli ==
  { 1048573, 1048571, 1048559, 1048549, 1048517, 1048507, 1048447,
    1048433, 1048423, 1048391, 1048387, 1048367, 1048361, 1048357 }

\* The natural with the given digits (most significant first) in the given
\* radix, modulo p, from the residue acc of the digits before index i.
RECURSIVE ResidueFrom(_, _, _, _, _)
ResidueFrom(digits, radix, p, i, acc) ==
  IF acc >= 0 /\ i > Len(digits) THEN acc
  ELSE ResidueFrom(digits, radix, p, i + 1, (acc * radix + digits[i]) % p)

Residue(digits, radix, p) == ResidueFrom(digits, radix, p, 1, 0)

\* The position of a character in 0-9A-Za-z, from 0.
DigitValue(c) == CHOOSE v \in 0..61 : ALPHABET[v + 1] = c

\* The string is a base-62 numeral of the buffer read as one big-endian
\* unsigned integer (buffers up to 32 bytes, numerals up to 44 digits).
SameNatural(chars, bytes) ==
  \A p \in Moduli :
    Residue([i \in 1..Len(chars) |-> DigitValue(chars[i])], 62, p)
      = Residue(bytes, 256, p)

C14_DecodeRejects ==
  (phase = "decoded" /\ given.kind = "string")
    => LET t == given.input
       IN  /\ (\E i \in 1..Len(t) : \A v \in 1..62 : ALPHABET[v] # t[i])
                => parsed = Throw("Base62Error", "Invalid character in base62 string")
           /\ t = <<>> => parsed = Return(<<>>)
           /\ t = <<"0">> => parsed = Return(<<0>>)

\* C14 happens: a string whose last character only is outside the alphabet
\* has been decoded.
C14_Witness ==
  /\ phase = "decoded"
  /\ given.kind = "string"
  /\ Len(given.input) = 4
  /\ given.input[4] = "!"
  /\ \A i \in 1..3 : given.input[i] \in AlphabetChars
  /\ parsed.threw

(***************************************************************************)
(* Properties of Instance                                                  *)
(***************************************************************************)
\* An integer Number in 0..255.
IsUint8(x) ==
  x.type = "number" /\ x.v.int /\ x.v.hi = 0 /\ x.v.lo >= 0 /\ x.v.lo <= 255

\* A Uint8Array of exactly n bytes.
IsBytes(x, n) == x.type = "Uint8Array" /\ Len(x.v) = n

\* C15: toBuffer() of an Instance is the 9 bytes scheme, then identifier;
\* fromBuffer of these bytes returns an Instance that equals() the first,
\* and is equal to it on the other side; toBuffer() of fromBuffer(b) is b
\* for every 9-byte b.
C15_InstanceRoundTrip ==
  /\ (given.kind = "instance" /\ phase \in {"buffered", "rebuilt", "rebuffered"})
       => /\ text.type = "Uint8Array"
          /\ text.v = <<given.scheme.v.lo>> \o given.identifier.v
          /\ Len(text.v) = 9
  /\ (given.kind = "instance" /\ phase \in {"rebuilt", "rebuffered"})
       => /\ ~parsed.threw
          /\ InstanceEquals(parsed.value, subject.value)
          /\ InstanceEquals(subject.value, parsed.value)
  /\ (given.kind = "buffer" /\ IsBytes(given.input, 9)
        /\ phase \in {"rebuilt", "rebuffered"})
       => ~parsed.threw
  /\ phase = "rebuffered" => reprint = text

\* C15 happens: an Instance of scheme 255, not a named one, has been
\* written to a buffer, read back and written again.
C15_Witness ==
  /\ phase = "rebuffered"
  /\ given.kind = "instance"
  /\ given.scheme = N(255)
  /\ given.identifier.v[8] = 8
  /\ reprint.v[1] = 255

\* C16: new Instance(scheme, identifier) returns an Instance exactly when
\* scheme is an integer in 0..255 and identifier a Uint8Array of 8 bytes,
\* and Instance.fromBuffer(buffer) exactly when buffer is a Uint8Array of 9
\* bytes; otherwise each throws a ValidationError that names the offending
\* field: "scheme must be a uint8" for an integer above 255, "identifier
\* must be 8 bytes" and "buffer must be 9 bytes" for a wrong length.
C16_InstanceValidation ==
  /\ (given.kind = "instance" /\ phase # "given")
       => IF IsUint8(given.scheme) /\ IsBytes(given.identifier, 8)
          THEN /\ ~subject.threw
               /\ subject.value.type = "Instance"
               /\ subject.value.v = [scheme |-> given.scheme,
                                     identifier |-> given.identifier.v]
          ELSE /\ subject.threw
               /\ subject.name = "ValidationError"
               /\ subject.message =
                    IF ~IsUint8(given.scheme)
                    THEN IF ~(given.scheme.type = "number" /\ given.scheme.v.int)
                         THEN "scheme must be an integer"
                         ELSE IF given.scheme.v.hi < 0
                         THEN "scheme must be positive"
                         ELSE "scheme must be a uint8"
                    ELSE IF given.identifier.type # "Uint8Array"
                    THEN "identifier must be a Uint8Array or derivative"
                    ELSE "identifier must be 8 bytes"
  /\ (given.kind = "buffer" /\ phase # "given")
       => IF IsBytes(given.input, 9)
          THEN ~parsed.threw /\ parsed.value.type = "Instance"
          ELSE /\ parsed.threw
               /\ parsed.name = "ValidationError"
               /\ parsed.message =
                    IF given.input.type # "Uint8Array"
                    THEN "buffer must be a Uint8Array or derivative"
                    ELSE "buffer must be 9 bytes"

\* C16 happens: the constructor was given a valid scheme with a 9-byte
\* identifier and threw.
C16_Witness ==
  /\ phase = "constructed"
  /\ given.kind = "instance"
  /\ given.scheme = N(82)
  /\ IsBytes(given.identifier, 9)
  /\ subject = Throw("ValidationError", "identifier must be 8 bytes")

\* Two Instances have the same scheme and the same 8 identifier bytes.
SameInstance(a, b) ==
  /\ a.v.scheme = b.v.scheme
  /\ \A i \in 1..8 : a.v.identifier[i] = b.v.identifier[i]

\* C17: Ksuid.equals(other) returns true exactly when other is a Ksuid with
\* the same environment, resource, timestamp and sequenceId and an instance
\* of the same scheme and identifier bytes; Instance.equals(other) returns
\* true exactly when other is an Instance of the same scheme and identifier
\* bytes; for an argument of another type both return false.
C17_Equals ==
  phase = "compared"
    => IF given.kind = "ksuids"
       THEN parsed =
              Return(/\ given.other.type = "Ksuid"
                     /\ given.other.v.environment = given.this.v.environment
                     /\ given.other.v.resource = given.this.v.resource
                     /\ given.other.v.timestamp = given.this.v.timestamp
                     /\ given.other.v.sequenceId = given.this.v.sequenceId
                     /\ SameInstance(given.other.v.instance, given.this.v.instance))
       ELSE parsed =
              Return(/\ given.other.type = "Instance"
                     /\ SameInstance(given.other, given.this))

\* C17 happens: a Ksuid has been compared with one that differs in the last
\* identifier byte of its instance only, and equals returned false.
C17_Witness ==
  /\ phase = "compared"
  /\ given.kind = "ksuids"
  /\ given.other.type = "Ksuid"
  /\ given.other.v.instance # given.this.v.instance
  /\ given.other.v.instance.v.scheme = given.this.v.instance.v.scheme
  /\ [given.other.v EXCEPT !.instance = given.this.v.instance] = given.this.v
  /\ parsed = Return(FALSE)

\* What instance.identifier and instance.toBuffer() would return now.
IdentifierNow ==
  LET r == HeapIdentifier(heap, subject.object) IN r.heap[r.result]

BufferNow ==
  LET r == HeapToBuffer(heap, subject.object) IN r.heap[r.result]

\* toString() of a Ksuid whose instance.toBuffer() returns the given bytes.
TextHolding(bytes) ==
  KsuidToString(NewKsuid(Str(dev), Str(user), N(1),
                         [type |-> "Instance",
                          v |-> [scheme |-> N(bytes[1]),
                                 identifier |-> Slice(bytes, 1)]],
                         N(0)).value)

\* C18: whatever the caller writes into the array it handed to the
\* constructor or into arrays returned by identifier and toBuffer(), before
\* or after the buffer cache is populated, identifier and toBuffer() return
\* the values of construction time, equals with an equal Instance is true
\* both ways, and toString() of a Ksuid holding the Instance is unchanged.
C18_InstanceImmutable ==
  phase = "live"
    => /\ IdentifierNow = given.identifier
       /\ BufferNow = <<given.scheme>> \o given.identifier
       /\ HeapEquals(heap, subject.object, subject.twin)
       /\ HeapEquals(heap, subject.twin, subject.object)
       /\ TextHolding(BufferNow) = TextHolding(<<given.scheme>> \o given.identifier)

\* C18 happens: the buffer cache is populated, and the caller has written
\* into the constructor's argument, into an array identifier returned and
\* into an array toBuffer() returned.
C18_Witness ==
  /\ phase = "live"
  /\ subject.object.buffer # 0
  /\ heap[1][1] \in WrittenBytes
  /\ \E ref \in held : Len(heap[ref]) = 8 /\ ref # 1 /\ heap[ref][1] \in WrittenBytes
  /\ \E ref \in held : Len(heap[ref]) = 9 /\ heap[ref][9] \in WrittenBytes

(***************************************************************************)
(* Properties of the exported functions                                    *)
(***************************************************************************)
LatestCall(kind) == "kind" \in DOMAIN given /\ given.kind = kind

\* The latest call threw a ValidationError with this message and left the
\* node as it found it, without reading the clock.
RejectedUntouched(message) ==
  /\ parsed = ValidationError(message)
  /\ ~given.read
  /\ node.lastTimestamp = given.before.lastTimestamp
  /\ node.currentSequence = given.before.currentSequence

\* C19: generate(resource) with a resource that is not a string throws
\* "resource must be a string", and with the empty string throws "resource
\* must not be empty"; the call throws before it reads the clock and leaves
\* lastTimestamp and currentSequence as they were.
C19_GenerateRejects ==
  LatestCall("generate") =>
    /\ given.input.type # "string" =>
         RejectedUntouched("resource must be a string")
    /\ StrictEq(given.input, Str(<<>>)) =>
         RejectedUntouched("resource must not be empty")

\* generate("") is rejected on a node whose cursor has already moved to the
\* second sequence number of a later second.
C19_Witness ==
  /\ LatestCall("generate")
  /\ StrictEq(given.input, Str(<<>>))
  /\ parsed.threw
  /\ given.before.currentSequence = N(1)
  /\ given.before.lastTimestamp = StartTime
  /\ node = given.before

LatestSucceeded(kind) == LatestCall(kind) /\ ~parsed.threw

\* C20: after a successful setEnvironment(v) getEnvironment() returns v,
\* after a successful setInstance(i) getInstance() returns i, both keep
\* returning the value last set, and every ID minted carries the environment
\* and the instance that were set when it was minted, whatever is set later.
C20_Configuration ==
  /\ LatestSucceeded("setEnvironment") => StrictEq(getEnvironment, given.input)
  /\ LatestSucceeded("setInstance") => getInstance = given.input
  /\ StrictEq(getEnvironment, subject.environment)
  /\ getInstance = subject.instance
  /\ \A i \in Minted :
       /\ StrictEq(IdOf(i).v.environment, calls[i].configured.environment)
       /\ IdOf(i).v.instance = calls[i].configured.instance

\* Two IDs minted either side of a change of environment and of instance,
\* each with its own values.
C20_Witness ==
  /\ Len(calls) = 2
  /\ Minted = {1, 2}
  /\ StrictEq(IdOf(1).v.environment, Str(prod))
  /\ StrictEq(IdOf(2).v.environment, Str(dev))
  /\ IdOf(1).v.instance = InstanceOf(82, 1)
  /\ IdOf(2).v.instance = InstanceOf(255, 255)
  /\ StrictEq(getEnvironment, Str(dev))
  /\ getInstance = InstanceOf(255, 255)

(***************************************************************************)
(* Properties of the payload                                               *)
(***************************************************************************)
\* The integer Number n (0 <= n < 2^48) as an unsigned big-endian integer
\* of byteLength bytes (byteLength <= 6), its higher bytes left out.
BigEndian(n, byteLength) ==
  LET six == << n.v.hi \div 65536, (n.v.hi \div 256) % 256, n.v.hi % 256,
                n.v.lo \div 65536, (n.v.lo \div 256) % 256, n.v.lo % 256 >>
  IN  SubSeq(six, 7 - byteLength, 6)

\* The 21-byte payload of the documented layout for the fields of a Ksuid.
LayoutOf(k) ==
  << 0, 0 >> \o BigEndian(k.v.timestamp, 6)
             \o InstanceToBuffer(k.v.instance)
             \o BigEndian(k.v.sequenceId, 4)

\* The last ENCODED_LEN characters of a text.
PayloadOf(chars) == SubSeq(chars, Len(chars) - ENCODED_LEN + 1, Len(chars))

\* C21: the text of a valid Ksuid ends in the encoding of the 21-byte payload
\* whose bytes 0..1 are 0, bytes 2..7 the timestamp as a 48-bit big-endian
\* integer, bytes 8..16 instance.toBuffer() and bytes 17..20 the sequenceId
\* as a 32-bit big-endian integer.
C21_PayloadLayout ==
  (phase = "printed" /\ given.kind = "fields")
    => /\ KsuidDecoded(subject.value) = LayoutOf(subject.value)
       /\ PayloadOf(text.v) = PayloadText(LayoutOf(subject.value))

\* The Number that bytes (at most six) are as an unsigned big-endian integer.
FromBigEndian(bytes) ==
  LET six == Zeros(6 - Len(bytes)) \o bytes
  IN  Num(six[1] * 65536 + six[2] * 256 + six[3],
          six[4] * 65536 + six[5] * 256 + six[6])

\* The bytes decode gives for the payload of a given text matching the grammar.
GivenDecoded == decode(Match(given.input.v).encoded).value

\* Those bytes, when at most 21, with zero bytes in front up to 21.
GivenBuffer == Zeros(DECODED_LEN - Len(GivenDecoded)) \o GivenDecoded

\* A given text matching the grammar, its environment group not "prod", its
\* payload decoding to at most 21 bytes of which the two reserved are 0.
GivenWellFormed ==
  /\ GivenMatches
  /\ Match(given.input.v).environment # Str(prod)
  /\ Len(GivenDecoded) <= DECODED_LEN
  /\ GivenBuffer[1] = 0
  /\ GivenBuffer[2] = 0

\* C22: parse of a text matching the grammar (environment not "prod") whose
\* payload has both reserved bytes zero returns a Ksuid with timestamp bytes
\* 2..7 of the 21-byte buffer as an unsigned big-endian integer, instance
\* Instance.fromBuffer(bytes 8..16) and sequenceId bytes 17..20 as an unsigned
\* big-endian integer.
C22_FieldExtraction ==
  (phase = "parsed" /\ GivenWellFormed)
    => /\ ~parsed.threw
       /\ parsed.value.v.timestamp = FromBigEndian(SubSeq(GivenBuffer, 3, 8))
       /\ parsed.value.v.instance =
            InstanceFromBuffer(Bytes(SubSeq(GivenBuffer, 9, 17))).value
       /\ parsed.value.v.sequenceId = FromBigEndian(SubSeq(GivenBuffer, 18, 21))

\* C23: parse accepts a text only if the full numeric value of its payload
\* is below 2^152, that is, only if the payload decodes to at most 19 bytes;
\* a payload whose value needs more than 21 bytes is rejected.
C23_NoMagnitudeDiscarded ==
  (phase = "parsed" /\ GivenMatches /\ ~parsed.threw)
    => Len(GivenDecoded) <= DECODED_LEN - 2

(***************************************************************************)
(* Properties of the sequence at the end of its field                      *)
(***************************************************************************)
SequenceError == ValidationError("sequenceId must be a uint32")

\* C24: generate never returns an ID whose sequenceId is not the cursor's or
\* is above 2^32 - 1; a call in the second of the call before leaves
\* currentSequence one greater, never wrapped, and when that is past
\* 2^32 - 1 it throws, for a well-formed resource "sequenceId must be a
\* uint32"; a call in another second leaves currentSequence 0 and, for a
\* well-formed resource, returns an ID.
C24_NoSilentWrap ==
  [][Len(calls') > Len(calls) =>
       LET c == calls'[Len(calls')]
       IN  /\ ~c.result.threw =>
                /\ c.result.value.v.sequenceId = c.currentSequence
                /\ ~NumGt(c.currentSequence, MaxUint(4))
           /\ StrictEq(node.lastTimestamp, c.now) =>
                /\ c.currentSequence = NumInc(node.currentSequence)
                /\ ~NumLt(node.currentSequence, MaxUint(4)) =>
                     /\ c.result.threw
                     /\ IsPrefix(c.resource) => c.result = SequenceError
           /\ ~StrictEq(node.lastTimestamp, c.now) =>
                /\ c.currentSequence = N(0)
                /\ IsPrefix(c.resource) => ~c.result.threw]_vars

\* The call after the one that returned sequenceId 2^32 - 1 threw, and the
\* call after that, in the next second, returned sequenceId 0.
C24_Witness ==
  /\ Len(calls) = 2
  /\ calls[1].result = SequenceError
  /\ calls[1].currentSequence = Num(256, 0)
  /\ ~calls[2].result.threw
  /\ calls[2].result.value.v.sequenceId = N(0)
  /\ calls[2].now # calls[1].now

(***************************************************************************)
(* Properties of shared use                                                *)
(***************************************************************************)
MintedTasks == { t \in Tasks : subject[t].pc = "minted" }

\* C25: of the calls of several tasks on the one node, in whatever order
\* they ran, no two found the same cursor and no two returned IDs with the
\* same timestamp and sequenceId.
C25_AtomicCursor ==
  \A t \in MintedTasks : \A u \in MintedTasks \ {t} :
    /\ subject[t].seen # subject[u].seen
    /\ LET a == subject[t].result.value.v
           b == subject[u].result.value.v
       IN  ~(a.timestamp = b.timestamp /\ a.sequenceId = b.sequenceId)

\* All three tasks have minted, two of them in one second.
C25_Witness ==
  /\ MintedTasks = Tasks
  /\ subject["t1"].result.value.v.sequenceId = N(1)
  /\ subject["t2"].result.value.v.sequenceId = N(0)
  /\ subject["t3"].result.value.v.sequenceId = N(0)
  /\ subject["t2"].result.value.v.timestamp = subject["t1"].result.value.v.timestamp
  /\ subject["t3"].result.value.v.timestamp # subject["t1"].result.value.v.timestamp

(***************************************************************************)
(* Properties of failed calls and of the setters                           *)
(***************************************************************************)
\* The cursor left by the recorded call i, that of a new node for i = 0.
CursorAfter(i) ==
  IF i = 0 THEN << N(0), N(0) >>
  ELSE << calls[i].lastTimestamp, calls[i].currentSequence >>

\* C26: a generate call that threw after its resource passed the
\* non-empty-string check left lastTimestamp and currentSequence as they
\* were, and the sequenceId of every returned ID is the number of IDs
\* returned before it with its timestamp.
C26_FailedCallKeepsCursor ==
  /\ \A i \in 1..Len(calls) :
       calls[i].result.threw => CursorAfter(i) = CursorAfter(i - 1)
  /\ \A j \in Minted :
       LET earlier == { i \in Minted :
                          i < j /\ IdOf(i).v.timestamp = IdOf(j).v.timestamp }
       IN  IdOf(j).v.sequenceId = N(Cardinality(earlier))

(***************************************************************************)
(* Properties under a clock that is set back                               *)
(***************************************************************************)
\* C27: whatever the clock does between calls, no two IDs minted for one
\* resource with the environment and instance unchanged have the same
\* timestamp and sequenceId (IDs that do have the same text as well).
C27_UniqueUnderSkew ==
  \A i \in Minted : \A j \in Minted :
    (i # j /\ SameOrigin(i, j))
      => ~(/\ IdOf(i).v.timestamp = IdOf(j).v.timestamp
           /\ IdOf(i).v.sequenceId = IdOf(j).v.sequenceId)

\* C28: setEnvironment with a value that is no string of [a-z0-9]+ and
\* setInstance with a value that is no Instance throw a ValidationError and
\* leave the node as it was; a setter that returns has changed its one
\* field only; so an ID minted in the second of the ID before has the next
\* sequenceId, whatever setters were called in between.
C28_SettersKeepCursor ==
  /\ LatestCall("setEnvironment") =>
       IF IsPrefix(given.input)
       THEN /\ ~parsed.threw
            /\ node = [given.before EXCEPT !.environment = given.input]
       ELSE /\ parsed.threw
            /\ parsed.name = "ValidationError"
            /\ node = given.before
  /\ LatestCall("setInstance") =>
       IF given.input.type = "Instance"
       THEN /\ ~parsed.threw
            /\ node = [given.before EXCEPT !.instance = given.input]
       ELSE /\ parsed.threw
            /\ parsed.name = "ValidationError"
            /\ node = given.before
  /\ \A i \in 2..Len(calls) :
       (i \in Minted /\ i - 1 \in Minted /\ calls[i].now = calls[i - 1].now)
         => IdOf(i).v.sequenceId = NumInc(IdOf(i - 1).v.sequenceId)

\* Two IDs were minted in one second either side of a setEnvironment that
\* returned, the second with the next sequenceId, and a setEnvironment
\* called after them has thrown.
C28_Witness ==
  /\ Len(calls) = 2
  /\ calls[1].now = calls[2].now
  /\ IdOf(1).v.environment = Str(prod)
  /\ IdOf(2).v.environment = Str(dev)
  /\ IdOf(2).v.sequenceId = N(1)
  /\ LatestCall("setEnvironment")
  /\ parsed.threw
  /\ node.currentSequence = N(1)
  /\ node.environment = Str(dev)

(***************************************************************************)
(* Properties of a Node built by the caller                                *)
(***************************************************************************)
\* C29: in every state of a Node, however it was constructed and whatever
\* was called on it, its environment is a string of [a-z0-9]+ and its
\* instance is an Instance, and no generate call with a well-formed
\* resource has thrown.
C29_NodeWellFormed ==
  /\ IsPrefix(node.environment)
  /\ node.instance.type = "Instance"
  /\ \A i \in 1..Len(calls) :
       IsPrefix(calls[i].resource) => ~calls[i].result.threw

(***************************************************************************)
(* Properties of the order of texts                                        *)
(***************************************************************************)
\* a < b for byte sequences of one length, as big-endian unsigned integers.
BytesLess(a, b) ==
  \E k \in 1..Len(a) :
    /\ a[k] < b[k]
    /\ \A j \in 1..(k - 1) : a[j] = b[j]

\* a < b for strings of one length, by code units.
StringLess(a, b) ==
  \E k \in 1..Len(a) :
    /\ CharCode(a[k]) < CharCode(b[k])
    /\ \A j \in 1..(k - 1) : a[j] = b[j]

\* C30: for 21-byte payloads a and b, both padded texts have 29 characters,
\* a < b as big-endian unsigned integers exactly when the padded text of a
\* is smaller by code units than that of b, and equal payloads, and no
\* others, give equal texts.
C30_OrderPreserved ==
  phase = "padded"
    => /\ Len(text.v) = ENCODED_LEN
       /\ Len(reprint.v) = ENCODED_LEN
       /\ BytesLess(given.a, given.b) <=> StringLess(text.v, reprint.v)
       /\ (given.a = given.b) <=> (text.v = reprint.v)

\* Two payloads whose encodings differ in length, the smaller payload
\* having the shorter encoding with the greater first digit, were padded.
C30_Witness ==
  /\ phase = "padded"
  /\ BytesLess(given.a, given.b)
  /\ Len(encode(given.a)) < Len(encode(given.b))
  /\ CharCode(encode(given.a)[1]) > CharCode(encode(given.b)[1])
  /\ StringLess(text.v, reprint.v)

====
